---- MODULE Spec2Model ----
(***************************************************************************)
(* Incremental chunked backup (watch: detectChanges -> createBackup ->     *)
(* sleep) and journal replay (restore) of HatiCode/aikido-backup.          *)
(*                                                                         *)
(* Go maps (snapshot, current, fileData, deletedFiles) and directories     *)
(* (the watched tree, the backup directory, the restore target) are        *)
(* functions whose DOMAIN is the set of keys / file names present.         *)
(* A byte string is kept run-length encoded, [byte |-> b, len |-> n] being *)
(* n copies of byte b, so that 3 MiB contents stay small values.           *)
(* A chunk file is kept as its gob encoding, the fields sent for each      *)
(* entry, and a fingerprint as the hex digest SHA-256 gives.               *)
(* A file name is the sequence of its bytes, so that sort.Strings is the   *)
(* byte-wise lexicographic order it is in Go.                              *)
(***************************************************************************)
EXTENDS Integers, Sequences, FiniteSets, TLC

VARIABLES
  clock,        \* wall clock, Unix seconds: what time.Now().Unix() returns
  fs,           \* the watched tree: relative path -> [content, mode, mtime]
  edits,        \* number of modifications made to the watched tree so far
  pc,           \* position of the watch loop
  snapshot,     \* watch's snapshot map: relative path -> fingerprint
  changes,      \* the loop's variable changes: result of detectChanges
  detectErr,    \* the loop's variable err: "nil", or "walk" when the pass failed
  backupErr,    \* the err of createBackup in the loop body
  loop,         \* createBackup's locals, when its loop is followed step by step
  backupDir,    \* whether the backup directory exists
  journal,      \* chunk files of the backup directory: name -> [ok, wire]
  targetDir,    \* whether the restore target directory exists
  target,       \* files under the restore target: path -> [content, mode, mtime]
  restoreErr,   \* what the last restore returned ("nil": success, "none": not run)
  scanned,      \* history: content of the watched tree at the last successful pass
  lastTs,       \* history: timestamp of the previous createBackup, -1 if none
  faulted,      \* history: a pass, a writeChunk or a step of restore has failed
  tsOrdered,    \* history: every createBackup got a later timestamp of the same width
  dirs,         \* the watched tree: the directories under the root
  targetDirs,   \* the directories under the restore target
  restoreFaults, \* history: the calls that failed in the last restore
  walk,         \* detectChanges's locals: the walk, followed call by call
  backupPath,   \* the name of the backup directory, as given on the command line
  raced         \* history: the watched tree was modified while a pass was running

vars == <<clock, fs, edits, pc, snapshot, changes, detectErr, backupErr, loop,
          backupDir, journal,
          targetDir, target, restoreErr, scanned, lastTs, faulted, tsOrdered,
          dirs, targetDirs, restoreFaults, walk, backupPath, raced>>

---------------------------------------------------------------------------
\* Bounds of the model.

\* The clock runs over ClockBase .. ClockBase + ClockSpan, a window around
\* the second at which the decimal timestamp gains a digit (9 -> 10).
ClockBase == 8
ClockSpan == 2
\* At most MaxEdits modifications of the watched tree.
MaxEdits == 2
\* At most MaxChunkFiles chunk files in a backup directory handed to restore.
MaxChunkFiles == 2
\* records in a change list handed to createBackup on its own
MaxEntries == 4

ClockMax == ClockBase + ClockSpan

---------------------------------------------------------------------------
\* Values.

chunkSize == 5 * 1024 * 1024
\* per-entry overhead added to len(entry.Content)
entryOverhead == 1024
\* time.Time{} of a FileEntry built without ModTime
ZeroTime == 0

MiB == 1024 * 1024

\* relative paths of regular files under the watched root, and the
\* lexical order in which filepath.WalkDir visits them
WalkOrder == <<"a", "b">>
Paths == {WalkOrder[i] : i \in 1..Len(WalkOrder)}

NilBytes == [byte |-> 0, len |-> 0]
\* the slice of no bytes that is not nil, as os.ReadFile returns it for an
\* empty file
EmptyBytes == [byte |-> 0, len |-> 0, alloc |-> TRUE]
\* the bytes a slice holds
BytesOf(content) == [byte |-> content.byte, len |-> content.len]
\* os.ReadFile of a file that holds content: never nil
osReadFile(content) == IF content.len = 0 THEN EmptyBytes ELSE content
\* "x" and 3 MiB of zero bytes
SmallBytes == [byte |-> 120, len |-> 1]
BigBytes == [byte |-> 0, len |-> 3 * MiB]
Contents == {SmallBytes, BigBytes}
\* "y": "x" with its byte changed
OtherBytes == [byte |-> 121, len |-> 1]
\* the contents a watched file may hold
HashContents == {NilBytes, SmallBytes, OtherBytes, BigBytes}
\* permission bits of the files of the watched tree: "a" is 0644, "b" is
\* read-only, 0444
FileModeOf(p) == IF p = "a" THEN 420 ELSE 292
\* whether the owner-write bit 0200 is set
OwnerWritable(mode) == (mode \div 128) % 2 = 1

RECURSIVE BitClear(_, _)
\* a &^ b on non-negative integers
BitClear(a, b) ==
  IF a = 0 THEN 0
  ELSE (a % 2) * (1 - (b % 2)) + 2 * BitClear(a \div 2, b \div 2)
\* the file mode creation masks a process may run with: 0 and 022
Umask022 == 18
Umasks == {0, Umask022}

\* the directories another process may create under the watched root; no
\* file of Paths lies in one
DirNames == {"d"}
\* the file another process may create in the directory "d"
NestedPaths == {"d/c"}
\* the entries under the watched root, in the order in which
\* filepath.WalkDir visits them: lexical within a directory, the entries of
\* a directory right after the directory
TreeOrder == <<"a", "b", "d", "d/c">>
\* the elements of a relative path, split at the separators
PathElems(p) == IF p = "d/c" THEN <<"d", "c">> ELSE <<p>>
\* filepath.Dir of a relative path: all but the last element, "." when the
\* path has one element only (no path here has more than two)
filepathDir(p) == IF Len(PathElems(p)) = 1 THEN "." ELSE PathElems(p)[1]
\* the calls of one restore that failed: os.MkdirAll(restorePath);
\* filepath.Glob; MkdirAll or WriteFile on a live path; Chtimes, on the
\* paths of chtimes; and torn, the paths at which a WriteFile of this or of
\* an earlier restore failed before it had written the whole content, and
\* which no restore has written since
NoFaults == [mkdir |-> FALSE, glob |-> FALSE, write |-> FALSE, chtimes |-> {}, torn |-> {}]
\* the locals of detectChanges and of its walk: at, the call that is next
\* ("start": filepath.WalkDir has not read the root; "visit": the callback
\* is to be called on the next entry; "info", "read": d.Info, os.ReadFile
\* on the file of index i); i, the index in TreeOrder from which the
\* listed entries are still to be visited; names, the entries listed by
\* the ReadDir calls so far; current and changes, the map and the list of
\* detectChanges; info, what d.Info returned; seen, history: the content
\* hashFile read from each file
NoInfo == [mode |-> 0, mtime |-> 0, size |-> 0]
\* no modification has fallen within a pass: neither within the last pass
\* nor within any pass so far
NoRace == [pass |-> FALSE, ever |-> FALSE]
\* names of the backup directory: a plain one, and one that is a malformed
\* pattern for filepath.Glob
BackupPaths == {"bk", "bk["}
WalkStart ==
  [at |-> "start", i |-> 1, names |-> {}, current |-> << >>, changes |-> << >>,
   info |-> NoInfo, seen |-> << >>]

EmptyMap == << >>
MapPut(m, k, v) == [x \in (DOMAIN m) \cup {k} |-> IF x = k THEN v ELSE m[x]]
MapDelete(m, k) == [x \in (DOMAIN m) \ {k} |-> m[x]]

\* all orders in which a Go map range may visit the keys S
Orders(S) == {s \in [1..Cardinality(S) -> S] : \A i, j \in DOMAIN s : s[i] = s[j] => i = j}

FileEntry(path, mode, modTime, size, content, deleted) ==
  [Path |-> path, Mode |-> mode, ModTime |-> modTime, Size |-> size,
   Content |-> content, Deleted |-> deleted]

---------------------------------------------------------------------------
\* Fingerprints.

\* sha256.New(), io.Copy(hash, file), hash.Sum(nil): SHA-256 as crypto/sha256
\* computes it. A 32-bit word is kept as the pair of its two halves of 16
\* bits, high half first.
RECURSIVE Xor16(_, _, _)
\* bitwise exclusive or of the n low bits of a and b, n a power of two
Xor16(a, b, n) ==
  IF n = 1 THEN (a + b) % 2
  ELSE LET h == 2^(n \div 2)
       IN (h * Xor16(a \div h, b \div h, n \div 2)) + Xor16(a % h, b % h, n \div 2)
RECURSIVE And16(_, _, _)
\* bitwise and of the n low bits of a and b, n a power of two
And16(a, b, n) ==
  IF n = 1 THEN a * b
  ELSE LET h == 2^(n \div 2)
       IN (h * And16(a \div h, b \div h, n \div 2)) + And16(a % h, b % h, n \div 2)
Xor(a, b) == <<Xor16(a[1], b[1], 16), Xor16(a[2], b[2], 16)>>
And(a, b) == <<And16(a[1], b[1], 16), And16(a[2], b[2], 16)>>
Not(a) == <<65535 - a[1], 65535 - a[2]>>
\* a shifted right by n < 16 bits, the bits of fill coming in at the top
ShiftIn(fill, a, n) == (a \div (2^n)) + ((fill % (2^n)) * (2^(16 - n)))
RotR(a, n) ==
  IF n < 16 THEN <<ShiftIn(a[2], a[1], n), ShiftIn(a[1], a[2], n)>>
  ELSE <<ShiftIn(a[1], a[2], n - 16), ShiftIn(a[2], a[1], n - 16)>>
ShR(a, n) == <<ShiftIn(0, a[1], n), ShiftIn(a[1], a[2], n)>>
\* a + b mod 2^32
Add(a, b) ==
  <<(a[1] + b[1] + ((a[2] + b[2]) \div 65536)) % 65536, (a[2] + b[2]) % 65536>>

\* the round constants K and the initial hash value H(0)
K256 ==
  <<<<17034, 12184>>, <<28983, 17553>>, <<46528, 64463>>, <<59829, 56229>>,
    <<14678, 49755>>, <<23025, 4593>>, <<37439, 33444>>, <<43804, 24277>>,
    <<55303, 43672>>, <<4739, 23297>>, <<9265, 34238>>, <<21772, 32195>>,
    <<29374, 23924>>, <<32990, 45566>>, <<39900, 1703>>, <<49563, 61812>>,
    <<58523, 27073>>, <<61374, 18310>>, <<4033, 40390>>, <<9228, 41420>>,
    <<11753, 11375>>, <<19060, 33962>>, <<23728, 43484>>, <<30457, 35034>>,
    <<38974, 20818>>, <<43057, 50797>>, <<45059, 10184>>, <<48985, 32711>>,
    <<50912, 3059>>, <<54695, 37191>>, <<1738, 25425>>, <<5161, 10599>>,
    <<10167, 2693>>, <<11803, 8504>>, <<19756, 28156>>, <<21304, 3347>>,
    <<25866, 29524>>, <<30314, 2747>>, <<33218, 51502>>, <<37490, 11397>>,
    <<41663, 59553>>, <<43034, 26187>>, <<49739, 35696>>, <<51052, 20899>>,
    <<53650, 59417>>, <<54937, 1572>>, <<62478, 13701>>, <<4202, 41072>>,
    <<6564, 49430>>, <<7735, 27656>>, <<10056, 30540>>, <<13488, 48309>>,
    <<14620, 3251>>, <<20184, 43594>>, <<23452, 51791>>, <<26670, 28659>>,
    <<29839, 33518>>, <<30885, 25455>>, <<33992, 30740>>, <<36039, 520>>,
    <<37054, 65530>>, <<42064, 27883>>, <<48889, 41975>>, <<50801, 30962>>>>
H256 ==
  <<<<27145, 58983>>, <<47975, 44677>>, <<15470, 62322>>, <<42319, 62778>>,
    <<20750, 21119>>, <<39685, 26764>>, <<8067, 55723>>, <<23520, 52505>>>>

\* the padded message of a content of at most 55 bytes, one block of 64
\* bytes: the content, the byte 0x80, zero bytes, and the length in bits
PaddedBlock(content) ==
  [i \in 1..64 |-> IF i <= content.len THEN content.byte
                   ELSE IF i = content.len + 1 THEN 128
                   ELSE IF i = 63 THEN ((8 * content.len) \div 256)
                   ELSE IF i = 64 THEN ((8 * content.len) % 256)
                   ELSE 0]
\* the message schedule with its next word appended
NextWord(w) ==
  LET t == Len(w) + 1
      SmallSigma0(x) == Xor(Xor(RotR(x, 7), RotR(x, 18)), ShR(x, 3))
      SmallSigma1(x) == Xor(Xor(RotR(x, 17), RotR(x, 19)), ShR(x, 10))
  IN Append(w, Add(Add(SmallSigma1(w[t - 2]), w[t - 7]),
                   Add(SmallSigma0(w[t - 15]), w[t - 16])))
RECURSIVE Schedule(_, _)
\* the message schedule W grown by n words: by the first half of them, then
\* by the second half
Schedule(w, n) ==
  IF n = 1 THEN NextWord(w)
  ELSE CHOOSE r \in {Schedule(half, n - (n \div 2)) : half \in {Schedule(w, n \div 2)}} : TRUE

\* one round on the working variables v = <<a, b, c, d, e, f, g, h>>
Round(v, k, wt) ==
  LET Ch == Xor(And(v[5], v[6]), And(Not(v[5]), v[7]))
      Maj == Xor(Xor(And(v[1], v[2]), And(v[1], v[3])), And(v[2], v[3]))
      BigSigma0 == Xor(Xor(RotR(v[1], 2), RotR(v[1], 13)), RotR(v[1], 22))
      BigSigma1 == Xor(Xor(RotR(v[5], 6), RotR(v[5], 11)), RotR(v[5], 25))
      t1 == Add(Add(Add(v[8], BigSigma1), Add(Ch, k)), wt)
      t2 == Add(BigSigma0, Maj)
  IN <<Add(t1, t2), v[1], v[2], v[3], Add(v[4], t1), v[5], v[6], v[7]>>

RECURSIVE Rounds(_, _, _, _)
\* the rounds from..to on the working variables: the first half of them,
\* then the second half on the value the first half left
Rounds(v, w, from, to) ==
  IF from = to THEN Round(v, K256[from], w[from])
  ELSE LET mid == (from + to) \div 2
       IN CHOOSE r \in {Rounds(half, w, mid + 1, to) : half \in {Rounds(v, w, from, mid)}} : TRUE

\* the hash value after the one block
Compress(block) ==
  LET BlockWord(t) == <<(256 * block[(4 * t) - 3]) + block[(4 * t) - 2],
                        (256 * block[(4 * t) - 1]) + block[4 * t]>>
      v == CHOOSE r \in {Rounds(H256, w, 1, 64) :
                         w \in {Schedule([t \in 1..16 |-> BlockWord(t)], 48)}} : TRUE
  IN [i \in 1..8 |-> Add(H256[i], v[i])]

\* fmt.Sprintf("%x", ..) of a byte slice: two lower-case hex digits per byte
HexDigits == <<"0", "1", "2", "3", "4", "5", "6", "7", "8", "9", "a", "b", "c", "d", "e", "f">>
RECURSIVE HexOfWords(_, _)
\* the hex digits of the words h[i..8] of the hash value
HexOfWords(h, i) ==
  LET HexOfHalf(x) ==
        HexDigits[(x \div 4096) + 1] \o HexDigits[((x \div 256) % 16) + 1]
          \o HexDigits[((x \div 16) % 16) + 1] \o HexDigits[(x % 16) + 1]
  IN IF i > 8 THEN ""
     ELSE HexOfHalf(h[i][1]) \o HexOfHalf(h[i][2]) \o HexOfWords(h, i + 1)
\* fmt.Sprintf("%x", hash.Sum(nil)) of a content that pads to one block
Sha256Hex(content) == HexOfWords(Compress(PaddedBlock(content)), 1)

\* the digest of each content a watched file may hold; for the 3 MiB of zero
\* bytes, 49153 blocks, the digest crypto/sha256 gives
Digests ==
  [c \in HashContents |->
     IF c = BigBytes THEN "bbd05cf6097ac9b1f89ea29d2542c1b7b67ee46848393895f5a9e43fa1f621e5"
     ELSE Sha256Hex(c)]

\* a hashFile that forgets io.Copy(hash, file): the digest of no bytes
hashFile_NoCopy(content) == Digests[NilBytes]

\* the SHA-256 of the file's bytes, in hex
hashFile(content) == Digests[content]

---------------------------------------------------------------------------
\* detectChanges

\* the walk's map current: every regular file's fingerprint
WalkCurrent(fsys) == [p \in DOMAIN fsys |-> hashFile(fsys[p].content)]

\* a test that reports new paths only and never compares the hashes
IsChanged_NewOnly(snap, p, hash) == p \notin DOMAIN snap

\* oldHash, exists := snapshot[relPath]; !exists || oldHash != hash
IsChanged(snap, p, hash) == p \notin DOMAIN snap \/ snap[p] # hash

\* a range over snapshot that does not test current[oldPath]
DeletedPaths_NoTest(snap, current) == DOMAIN snap

\* paths of the snapshot that the walk did not see
DeletedPaths(snap, current) == {p \in DOMAIN snap : p \notin DOMAIN current}

Tombstone(p) == FileEntry(p, 0, ZeroTime, 0, NilBytes, TRUE)

\* the records appended by the range over snapshot, visited in order ord
TombstoneEntries(ord) == [i \in DOMAIN ord |-> Tombstone(ord[i])]

\* a pass that forgets maps.Copy(snapshot, current)
MapsCopy_Forgotten(dst, src) == dst

\* a pass that forgets to delete the vanished keys from snapshot
PruneSnapshot_Forgotten(snap, current) == snap

\* maps.Copy(snapshot, current), then delete every key not in current
MapsCopy(dst, src) == [p \in (DOMAIN dst) \cup (DOMAIN src) |-> IF p \in DOMAIN src THEN src[p] ELSE dst[p]]
PruneSnapshot(snap, current) == [p \in {q \in DOMAIN snap : q \in DOMAIN current} |-> snap[p]]
\* a snapshot update that inserts the new paths and never overwrites a hash
UpdateSnapshot_InsertOnly(snap, current) ==
  PruneSnapshot([p \in (DOMAIN snap) \cup (DOMAIN current) |->
                   IF p \in DOMAIN snap THEN snap[p] ELSE current[p]], current)

UpdateSnapshot(snap, current) == PruneSnapshot(MapsCopy(snap, current), current)

\* a pass that, when the walk fails, returns what it has collected and
\* records the files it has hashed in the snapshot
FailedPass_Partial(snap, chs, current) ==
  [changes |-> chs, snapshot |-> MapsCopy(snap, current)]

\* if err != nil { return nil, err } after the walk: the list is dropped
\* and the snapshot is not touched
FailedPass(snap, chs, current) == [changes |-> << >>, snapshot |-> snap]

\* the entries of the watched root itself: what ReadDir of the root lists
RootEntries(fsys, ds) == {e \in (DOMAIN fsys) \cup ds : filepathDir(e) = "."}

RECURSIVE NextEntry(_, _)
\* index in TreeOrder of the next listed entry, from index i on;
\* Len(TreeOrder) + 1 when none is left
NextEntry(names, i) ==
  IF i > Len(TreeOrder) \/ TreeOrder[i] \in names THEN i ELSE NextEntry(names, i + 1)

---------------------------------------------------------------------------
\* createBackup / writeChunk

RECURSIVE Digits(_)
\* %d of a non-negative integer, as bytes
Digits(n) == IF n < 10 THEN <<48 + n>> ELSE Digits(n \div 10) \o <<48 + (n % 10)>>

RECURSIVE ZeroPad(_, _)
ZeroPad(s, w) == IF Len(s) >= w THEN s ELSE ZeroPad(<<48>> \o s, w)

\* fmt.Sprintf("chunk_%d_%03d.dat", timestamp, num)
ChunkFileName(timestamp, num) ==
  <<99, 104, 117, 110, 107, 95>> \o Digits(timestamp) \o <<95>>
    \o ZeroPad(Digits(num), 3) \o <<46, 100, 97, 116>>

\* an accounted size that forgets the overhead
EntrySize_NoOverhead(entry) == entry.Content.len

EntrySize(entry) == entry.Content.len + entryOverhead

RECURSIVE PackChunks_NoFlush(_, _, _, _)
\* the loop of createBackup without the final flush of currentChunk
PackChunks_NoFlush(entries, i, currentChunk, currentSize) ==
  IF i > Len(entries)
  THEN << >>
  ELSE LET entry == entries[i]
           entrySize == EntrySize(entry)
       IN IF currentSize + entrySize > chunkSize /\ Len(currentChunk) > 0
          THEN <<currentChunk>> \o PackChunks_NoFlush(entries, i + 1, <<entry>>, entrySize)
          ELSE PackChunks_NoFlush(entries, i + 1, Append(currentChunk, entry),
                                  currentSize + entrySize)

RECURSIVE PackChunks_DropOnSplit(_, _, _, _)
\* a loop that, after closing a chunk, forgets the entry that did not fit
PackChunks_DropOnSplit(entries, i, currentChunk, currentSize) ==
  IF i > Len(entries)
  THEN IF Len(currentChunk) > 0 THEN <<currentChunk>> ELSE << >>
  ELSE LET entry == entries[i]
           entrySize == EntrySize(entry)
       IN IF currentSize + entrySize > chunkSize /\ Len(currentChunk) > 0
          THEN <<currentChunk>> \o PackChunks_DropOnSplit(entries, i + 1, << >>, 0)
          ELSE PackChunks_DropOnSplit(entries, i + 1, Append(currentChunk, entry),
                                      currentSize + entrySize)

RECURSIVE PackChunks_FlushEmpty(_, _, _, _)
\* a loop whose final flush does not test len(currentChunk.Entries) > 0
PackChunks_FlushEmpty(entries, i, currentChunk, currentSize) ==
  IF i > Len(entries)
  THEN <<currentChunk>>
  ELSE LET entry == entries[i]
           entrySize == EntrySize(entry)
       IN IF currentSize + entrySize > chunkSize /\ Len(currentChunk) > 0
          THEN <<currentChunk>> \o PackChunks_FlushEmpty(entries, i + 1, <<entry>>, entrySize)
          ELSE PackChunks_FlushEmpty(entries, i + 1, Append(currentChunk, entry),
                                     currentSize + entrySize)

RECURSIVE PackChunks_OnePerChunk(_, _, _, _)
\* a loop that closes the current chunk before every entry, full or not
PackChunks_OnePerChunk(entries, i, currentChunk, currentSize) ==
  IF i > Len(entries)
  THEN IF Len(currentChunk) > 0 THEN <<currentChunk>> ELSE << >>
  ELSE LET entry == entries[i]
           entrySize == EntrySize(entry)
       IN IF Len(currentChunk) > 0
          THEN <<currentChunk>> \o PackChunks_OnePerChunk(entries, i + 1, <<entry>>, entrySize)
          ELSE PackChunks_OnePerChunk(entries, i + 1, Append(currentChunk, entry),
                                      currentSize + entrySize)

RECURSIVE PackChunks(_, _, _, _)
\* the loop of createBackup over entries[i..]: the chunks it hands to
\* writeChunk, in order; currentChunk and currentSize are the loop's state
PackChunks(entries, i, currentChunk, currentSize) ==
  IF i > Len(entries)
  THEN IF Len(currentChunk) > 0 THEN <<currentChunk>> ELSE << >>
  ELSE LET entry == entries[i]
           entrySize == EntrySize(entry)
       IN IF currentSize + entrySize > chunkSize /\ Len(currentChunk) > 0
          THEN <<currentChunk>> \o PackChunks(entries, i + 1, <<entry>>, entrySize)
          ELSE PackChunks(entries, i + 1, Append(currentChunk, entry), currentSize + entrySize)

\* the zero value of FileEntry
ZeroEntry == FileEntry("", 0, ZeroTime, 0, NilBytes, FALSE)

\* whether gob takes the value v of the field f for a zero value, which it
\* does not send: a byte slice of length 0, nil or not; 0, "", false and the
\* zero time.Time
GobIsZero(f, v) == IF f = "Content" THEN v.len = 0 ELSE v = ZeroEntry[f]

\* an encoder that skips Mode, as gob skips a field that is not exported
GobEncodeEntry_NoMode(entry) ==
  [f \in {g \in DOMAIN ZeroEntry : ~GobIsZero(g, entry[g]) /\ g # "Mode"} |-> entry[f]]

\* gob sends a struct as the fields that differ from their zero value, each
\* with its value; a field holding its zero value is not sent
GobEncodeEntry(entry) ==
  [f \in {g \in DOMAIN ZeroEntry : ~GobIsZero(g, entry[g])} |-> entry[f]]

\* the decoder allocates a zero FileEntry and sets the fields that were sent
GobDecodeEntry(enc) ==
  [f \in DOMAIN ZeroEntry |-> IF f \in DOMAIN enc THEN enc[f] ELSE ZeroEntry[f]]

\* a chunk file holding the gob encoding of the chunk, encoder.Encode(chunk):
\* the bytes of the file are kept as the fields sent for each entry
GobFile(chunk) == [ok |-> TRUE, wire |-> [i \in DOMAIN chunk |-> GobEncodeEntry(chunk[i])]]
\* a chunk file whose bytes do not decode: readChunk returns an error, and
\* the decoder had filled in the entries partial before it gave up
Damaged(partial) ==
  [ok |-> FALSE, wire |-> [i \in DOMAIN partial |-> GobEncodeEntry(partial[i])]]
\* a truncated chunk file: nothing is decoded from it
BadFile == Damaged(<< >>)

\* a decoder that fills one FileEntry again and again: a field that was not
\* sent keeps the value the entry before left in it
readChunk_ReusedEntry(file) ==
  [i \in DOMAIN file.wire |->
     LET before == IF i = 1 THEN ZeroEntry ELSE GobDecodeEntry(file.wire[i - 1])
     IN [f \in DOMAIN ZeroEntry |-> IF f \in DOMAIN file.wire[i] THEN file.wire[i][f]
                                    ELSE before[f]]]

\* chunk.Entries as decoder.Decode(&chunk) of readChunk fills them from the
\* bytes of a chunk file
readChunk(file) == [i \in DOMAIN file.wire |-> GobDecodeEntry(file.wire[i])]

\* the backup directory after writeChunk calls 0 .. n-1 succeeded;
\* os.Create truncates a file of the same name
RECURSIVE WriteChunks(_, _, _, _)
WriteChunks(dir, timestamp, chunks, n) ==
  IF n = 0 THEN dir
  ELSE MapPut(WriteChunks(dir, timestamp, chunks, n - 1),
              ChunkFileName(timestamp, n - 1), GobFile(chunks[n]))

\* createBackup's locals at entry: the index of the next entry, chunkNum,
\* currentChunk and currentSize
LoopStart == [i |-> 1, chunkNum |-> 0, currentChunk |-> << >>, currentSize |-> 0]

\* the error createBackup returns: nil, or the *PathError of os.Create or of
\* the write under Encode, which names the chunk file; ErrNone: not called
ErrNone == [kind |-> "none", name |-> << >>]
ErrNil == [kind |-> "nil", name |-> << >>]
PathError(name) == [kind |-> "write", name |-> name]

\* a createBackup that logs the failure of a writeChunk and goes on with
\* the chunks that follow
createBackup_KeepsGoing(dir, entries, timestamp, failAt, created) ==
  LET chunks == PackChunks(entries, 1, << >>, 0)
      all == WriteChunks(dir, timestamp, chunks, Len(chunks))
      name == ChunkFileName(timestamp, failAt - 1)
  IN IF failAt = 0
     THEN [err |-> ErrNil, dir |-> all]
     ELSE [err |-> PathError(name),
           dir |-> IF created THEN MapPut(all, name, BadFile)
                   ELSE [f \in (DOMAIN all) \ ((DOMAIN all \ DOMAIN dir) \cap {name}) |->
                           IF f = name THEN dir[f] ELSE all[f]]]

\* createBackup(backupPath, entries) at time timestamp on the backup
\* directory dir: the error it returns and the directory it leaves.
\* failAt = 0: every writeChunk succeeds; failAt = k: the k-th writeChunk
\* fails, in os.Create (created false: no file) or in Encode (created true:
\* a file that does not decode is left), and createBackup returns at once
createBackup(dir, entries, timestamp, failAt, created) ==
  LET chunks == PackChunks(entries, 1, << >>, 0)
  IN IF failAt = 0
     THEN [err |-> ErrNil, dir |-> WriteChunks(dir, timestamp, chunks, Len(chunks))]
     ELSE [err |-> PathError(ChunkFileName(timestamp, failAt - 1)),
           dir |-> IF created
                   THEN MapPut(WriteChunks(dir, timestamp, chunks, failAt - 1),
                               ChunkFileName(timestamp, failAt - 1), BadFile)
                   ELSE WriteChunks(dir, timestamp, chunks, failAt - 1)]

---------------------------------------------------------------------------
\* restore / readChunk

RECURSIVE StrLessFrom(_, _, _)
\* byte-wise comparison of s and t, which agree before position i
StrLessFrom(s, t, i) ==
  IF i > Len(t) THEN FALSE
  ELSE IF i > Len(s) THEN TRUE
  ELSE IF s[i] = t[i] THEN StrLessFrom(s, t, i + 1)
  ELSE s[i] < t[i]

\* s < t on Go strings
StrLess(s, t) == StrLessFrom(s, t, 1)

RECURSIVE SortStrings(_)
\* sort.Strings over the names Glob returned
SortStrings(S) ==
  IF S = {} THEN << >>
  ELSE LET m == CHOOSE x \in S : \A y \in S \ {x} : StrLess(x, y)
       IN <<m>> \o SortStrings(S \ {m})

\* readChunk whose error is not looked at: what the decoder filled in is used
ReadOk_Always(file) == TRUE

\* readChunk: the decoded chunk, or an error
ReadOk(file) == file.ok

\* a fold that keeps the first record of a path instead of the last
FoldEntry_FirstWins(st, entry) ==
  IF entry.Deleted
  THEN [fileData |-> MapDelete(st.fileData, entry.Path),
        deletedFiles |-> st.deletedFiles \cup {entry.Path}]
  ELSE [fileData |-> IF entry.Path \in DOMAIN st.fileData THEN st.fileData
                     ELSE MapPut(st.fileData, entry.Path, entry),
        deletedFiles |-> st.deletedFiles \ {entry.Path}]

\* a fold whose tombstone branch forgets delete(fileData, entry.Path)
FoldEntry_KeepDeleted(st, entry) ==
  IF entry.Deleted
  THEN [fileData |-> st.fileData,
        deletedFiles |-> st.deletedFiles \cup {entry.Path}]
  ELSE [fileData |-> MapPut(st.fileData, entry.Path, entry),
        deletedFiles |-> st.deletedFiles \ {entry.Path}]

\* a fold whose live branch forgets delete(deletedFiles, entry.Path)
FoldEntry_NoUnmark(st, entry) ==
  IF entry.Deleted
  THEN [fileData |-> MapDelete(st.fileData, entry.Path),
        deletedFiles |-> st.deletedFiles \cup {entry.Path}]
  ELSE [fileData |-> MapPut(st.fileData, entry.Path, entry),
        deletedFiles |-> st.deletedFiles]

\* the body of the loop over chunk.Entries; st is [fileData, deletedFiles]
FoldEntry(st, entry) ==
  IF entry.Deleted
  THEN [fileData |-> MapDelete(st.fileData, entry.Path),
        deletedFiles |-> st.deletedFiles \cup {entry.Path}]
  ELSE [fileData |-> MapPut(st.fileData, entry.Path, entry),
        deletedFiles |-> st.deletedFiles \ {entry.Path}]

RECURSIVE FoldEntries(_, _, _)
FoldEntries(st, entries, i) ==
  IF i > Len(entries) THEN st
  ELSE FoldEntries(FoldEntry(st, entries[i]), entries, i + 1)

RECURSIVE FoldChunks(_, _, _, _)
\* the loop over the sorted chunk files; an unreadable chunk is skipped
FoldChunks(st, dir, files, i) ==
  IF i > Len(files) THEN st
  ELSE IF ~ReadOk(dir[files[i]])
       THEN FoldChunks(st, dir, files, i + 1)
       ELSE FoldChunks(FoldEntries(st, readChunk(dir[files[i]]), 1), dir, files, i + 1)

\* whether filepath.Match rejects the pattern backupPath/chunk_*.dat: the
\* name of the backup directory is part of the pattern, and "bk[" opens a
\* character class it never closes
BadPattern(path) == path = "bk["

\* filepath.Glob(backupPath/chunk_*.dat) on the backup directory named path
\* that holds the files dir: ErrBadPattern when the pattern is malformed,
\* else the chunk files of the directory (none when it does not exist)
Glob(path, dir) ==
  IF BadPattern(path) THEN [matches |-> {}, err |-> TRUE]
  ELSE [matches |-> DOMAIN dir, err |-> FALSE]

\* whether os.WriteFile(targetPath, ..) can open the file for writing:
\* a new file always, an existing one when it is owner-writable or the
\* process is privileged
CanWrite(tgt, p, root) == p \notin DOMAIN tgt \/ root \/ OwnerWritable(tgt[p].mode)

\* the mode of the file os.WriteFile(targetPath, .., entry.Mode) opens: an
\* existing file keeps its mode, a new one is created with entry.Mode less
\* the bits of the process's umask
WrittenMode(tgt, entry, umask) ==
  IF entry.Path \in DOMAIN tgt THEN tgt[entry.Path].mode ELSE BitClear(entry.Mode, umask)

\* os.WriteFile then os.Chtimes on one entry; now is the time of the write,
\* which stays the file's mtime when Chtimes fails, and also when
\* entry.ModTime is the zero time.Time: os.Chtimes leaves a file time
\* unchanged when it is given the zero time
Materialise(tgt, entry, now, chtimesOk, umask) ==
  MapPut(tgt, entry.Path,
         [content |-> entry.Content,
          mode |-> WrittenMode(tgt, entry, umask),
          mtime |-> IF chtimesOk /\ entry.ModTime # ZeroTime THEN entry.ModTime ELSE now])

RECURSIVE MaterialiseAll(_, _, _, _, _, _, _, _)
\* the range over fileData visiting the paths ord[i..n]; ctFail: the paths
\* whose Chtimes call fails
MaterialiseAll(tgt, fileData, ord, i, n, now, ctFail, umask) ==
  IF i > n THEN tgt
  ELSE MaterialiseAll(Materialise(tgt, fileData[ord[i]], now, ord[i] \notin ctFail, umask),
                      fileData, ord, i + 1, n, now, ctFail, umask)

\* a failure of the environment in the range over fileData: at, the index
\* of the entry it falls on (0: none); how, the call that fails:
\* "mkdir", os.MkdirAll of the parent; "open", os.WriteFile before it has
\* the file open; "write", os.WriteFile once the file is open, after kept
\* bytes of the content
NoInj == [at |-> 0, how |-> "none", kept |-> 0]
\* the calls that may fail on the path p. The parent of a path of one
\* element is the target directory, which restore has just made: MkdirAll
\* fails on a parent that is still to be made. The file can be opened, and
\* the write then fail, only when the process may write it
Hows(tgt, p, root) ==
  (IF filepathDir(p) = "." THEN {} ELSE {"mkdir"})
    \cup {"open"}
    \cup (IF CanWrite(tgt, p, root) THEN {"write"} ELSE {})
\* the numbers of bytes a failed write may have written: none, one, all
\* (the close fails)
Kept(content) == {n \in {0, 1, content.len} : n <= content.len}
\* the first n bytes of a content
Prefix(content, n) == IF n = 0 THEN NilBytes ELSE [byte |-> content.byte, len |-> n]

\* index of the first entry of ord on which restore returns an error, 0
\* when there is none: the entry the environment's failure falls on, or one
\* the process may not write
FirstFailure(tgt, ord, inj, root) ==
  LET failing == {k \in 1..Len(ord) : k = inj.at \/ ~CanWrite(tgt, ord[k], root)}
  IN IF failing = {} THEN 0 ELSE CHOOSE k \in failing : \A l \in failing : k <= l

\* what the failed call leaves at the entry's path: os.WriteFile opens the
\* file with O_WRONLY|O_CREATE|O_TRUNC, so once the file is open an
\* existing file is cut and a new one exists, with what was written before
\* the failure; a call that fails earlier leaves the path as it was
FailedWrite(tgt, entry, inj, root, now, umask) ==
  IF inj.how = "write" /\ CanWrite(tgt, entry.Path, root)
  THEN MapPut(tgt, entry.Path,
              [content |-> Prefix(entry.Content, inj.kept),
               mode |-> WrittenMode(tgt, entry, umask),
               mtime |-> now])
  ELSE tgt

\* the path a failed write has left with a part of its content
Torn(rp, ord, inj) ==
  IF inj.how = "write" /\ inj.kept < rp.st.fileData[ord[inj.at]].Content.len
  THEN {ord[inj.at]} ELSE {}

\* the directories os.MkdirAll(filepath.Dir(targetPath)) has made under the
\* target: the parents of the n entries written and, when the range
\* stopped at entry stop after its MkdirAll, that entry's parent
MadeDirs(ord, n, stop, inj) ==
  ({filepathDir(ord[k]) : k \in 1..n}
     \cup (IF stop # 0 /\ ~(inj.at = stop /\ inj.how = "mkdir")
           THEN {filepathDir(ord[stop])} ELSE {}))
    \ {"."}

\* the range over fileData on the target tgt, stopping at the first entry
\* that fails
Range(rp, tgt, ord, inj, root, ctFail, now, umask) ==
  LET stop == FirstFailure(tgt, ord, inj, root)
      n == IF stop = 0 THEN Len(ord) ELSE stop - 1
      done == MaterialiseAll(tgt, rp.st.fileData, ord, 1, n, now, ctFail, umask)
  IN [err |-> IF stop = 0 THEN "nil" ELSE "write",
      target |-> IF stop = 0 \/ inj.at # stop THEN done
                 ELSE FailedWrite(done, rp.st.fileData[ord[stop]], inj, root, now, umask),
      written |-> n,
      dirs |-> MadeDirs(ord, n, stop, inj)]

\* what restore returns before the range: nothing is written
Returned(err, tgt) == [err |-> err, target |-> tgt, written |-> 0, dirs |-> {}]

\* the first half of restore: the sorted chunk files and the state folded
\* from them; nothing is read when Glob returns an error
Replay(path, dir) ==
  LET glob == Glob(path, dir)
      files == SortStrings(glob.matches)
  IN [globErr |-> glob.err,
      files |-> files,
      st |-> FoldChunks([fileData |-> EmptyMap, deletedFiles |-> {}], dir, files, 1)]

\* the second half of restore without the test len(chunkFiles) == 0
Finish_NoEmptyCheck(rp, tgt, ord, inj, root, ctFail, now, umask) ==
  IF rp.globErr THEN Returned("glob", tgt)
  ELSE Range(rp, tgt, ord, inj, root, ctFail, now, umask)

\* a restore that also removes from the target the paths whose last record
\* is a tombstone
Finish_RemovesDeleted(rp, tgt, ord, inj, root, ctFail, now, umask) ==
  IF rp.globErr THEN Returned("glob", tgt)
  ELSE IF Len(rp.files) = 0 THEN Returned("nochunks", tgt)
  ELSE LET r == Range(rp, tgt, ord, inj, root, ctFail, now, umask)
       IN [r EXCEPT !.target = [p \in (DOMAIN r.target) \ rp.st.deletedFiles |-> r.target[p]]]

\* a restore that returns the error of os.Chtimes: the range stops at the
\* first path whose modification time cannot be set
Finish_ChtimesFatal(rp, tgt, ord, inj, root, ctFail, now, umask) ==
  IF rp.globErr THEN Returned("glob", tgt)
  ELSE IF Len(rp.files) = 0 THEN Returned("nochunks", tgt)
  ELSE LET r == Range(rp, tgt, ord, inj, root, ctFail, now, umask)
           late == {k \in 1..r.written : ord[k] \in ctFail}
           m == IF late = {} THEN r.written ELSE CHOOSE k \in late : \A l \in late : k <= l
       IN IF late = {} THEN r
          ELSE [err |-> "write",
                target |-> MaterialiseAll(tgt, rp.st.fileData, ord, 1, m, now, ctFail, umask),
                written |-> m,
                dirs |-> {filepathDir(ord[k]) : k \in 1..m} \ {"."}]

\* the second half of restore, after os.MkdirAll(restorePath) succeeded:
\* what it returns and what it leaves at the target tgt.
\* rp: what Replay gave; ord: the order in which the range over fileData
\* visits the live paths; inj, root: see FirstFailure; ctFail: the paths
\* whose Chtimes fails; now: the time of the run; umask: the process's file
\* mode creation mask
Finish(rp, tgt, ord, inj, root, ctFail, now, umask) ==
  IF rp.globErr THEN Returned("glob", tgt)
  ELSE IF Len(rp.files) = 0 THEN Returned("nochunks", tgt)
  ELSE Range(rp, tgt, ord, inj, root, ctFail, now, umask)

\* restore(backupPath, restorePath) on the backup directory named path
\* that holds dir, and the target tgt; mkdirOk: os.MkdirAll(restorePath)
\* succeeds
restore(path, dir, tgt, mkdirOk, ord, inj, root, ctFail, now, umask) ==
  IF ~mkdirOk THEN Returned("mkdir", tgt)
  ELSE Finish(Replay(path, dir), tgt, ord, inj, root, ctFail, now, umask)

---------------------------------------------------------------------------
\* Initial state of a watch session: nothing watched yet, no backup
\* directory, restore not run.

Init ==
  /\ clock = ClockBase
  /\ fs = EmptyMap
  /\ edits = 0
  /\ pc = "start"
  /\ snapshot = EmptyMap
  /\ changes = << >>
  /\ detectErr = "none"
  /\ backupErr = ErrNone
  /\ loop = LoopStart
  /\ backupDir = FALSE
  /\ journal = EmptyMap
  /\ targetDir = FALSE
  /\ target = EmptyMap
  /\ restoreErr = "none"
  /\ scanned = EmptyMap
  /\ lastTs = -1
  /\ faulted = FALSE
  /\ tsOrdered = TRUE
  /\ dirs = {}
  /\ targetDirs = {}
  /\ restoreFaults = NoFaults
  /\ walk = WalkStart
  /\ backupPath = "bk"
  /\ raced = NoRace

restoreVars == <<targetDir, target, restoreErr, targetDirs, restoreFaults>>

---------------------------------------------------------------------------
\* The environment: other processes modify the watched tree.

\* createBackup and time.Sleep do not read the watched tree, so a
\* modification made while the loop is in one of them is placed after the
\* sleep, before the pass starts. A modification made once the pass has
\* started falls between two calls of the pass.
BetweenScans == pc = "detect"

\* raced, after a modification made while the walk is at w
Raced(w, r) == IF w.at = "start" THEN r ELSE [pass |-> TRUE, ever |-> TRUE]

\* a file is created or rewritten, as one of at most n modifications
WriteFileWithin(n) ==
  /\ BetweenScans /\ edits < n
  /\ \E p \in Paths, c \in Contents :
       /\ p \in DOMAIN fs => fs[p].content # c
       /\ fs' = MapPut(fs, p, [content |-> c, mode |-> FileModeOf(p), mtime |-> clock])
  /\ edits' = edits + 1
  /\ raced' = Raced(walk, raced)
  /\ UNCHANGED <<backupErr, loop, clock, pc, snapshot, changes, detectErr, backupDir, journal, scanned,
                 lastTs, faulted, tsOrdered, restoreVars, dirs, walk, backupPath>>

\* a file is removed
RemoveFileWithin(n) ==
  /\ BetweenScans /\ edits < n
  /\ \E p \in DOMAIN fs : fs' = MapDelete(fs, p)
  /\ edits' = edits + 1
  /\ raced' = Raced(walk, raced)
  /\ UNCHANGED <<backupErr, loop, clock, pc, snapshot, changes, detectErr, backupDir, journal, scanned,
                 lastTs, faulted, tsOrdered, restoreVars, dirs, walk, backupPath>>

\* a file is renamed (os.Rename): the old path is gone, and the new path,
\* whatever it held, is the file with its content, mode and mtime
RenameFileWithin(n) ==
  /\ BetweenScans /\ edits < n
  /\ \E p \in DOMAIN fs : \E q \in Paths \ {p} : fs' = MapPut(MapDelete(fs, p), q, fs[p])
  /\ edits' = edits + 1
  /\ raced' = Raced(walk, raced)
  /\ UNCHANGED <<backupErr, loop, clock, pc, snapshot, changes, detectErr, backupDir, journal, scanned,
                 lastTs, faulted, tsOrdered, restoreVars, dirs, walk, backupPath>>

WriteFile == WriteFileWithin(MaxEdits)
RemoveFile == RemoveFileWithin(MaxEdits)
RenameFile == RenameFileWithin(MaxEdits)

---------------------------------------------------------------------------
\* watch

\* os.MkdirAll(backupPath): on error watch returns
WatchStart ==
  /\ pc = "start"
  /\ \E ok \in BOOLEAN :
       IF ok THEN backupDir' = TRUE /\ pc' = "detect" /\ faulted' = faulted
             ELSE backupDir' = backupDir /\ pc' = "exit" /\ faulted' = TRUE
  /\ UNCHANGED <<backupErr, loop, clock, fs, edits, snapshot, changes, detectErr, journal, scanned, lastTs,
                 tsOrdered, restoreVars, dirs, walk, backupPath, raced>>

\* a loop body that, when createBackup fails, takes the paths of the live
\* records out of the snapshot, for the next pass to report them again
SnapshotAfterBackup_Requeue(snap, chs, err) ==
  IF err.kind = "write"
  THEN [p \in (DOMAIN snap) \ {chs[i].Path : i \in {j \in DOMAIN chs : ~chs[j].Deleted}} |-> snap[p]]
  ELSE snap

\* the snapshot once createBackup has returned err: the loop body does not
\* touch it, whatever err is
SnapshotAfterBackup(snap, chs, err) == snap

\* a loop body that returns from watch when createBackup fails
AfterBackup_ReturnsOnError(err) == IF err.kind = "write" THEN "exit" ELSE "sleep"

\* where the loop body goes once createBackup has returned err: the error
\* is logged, and time.Sleep is next either way
AfterBackup(err) == "sleep"

\* a loop body that calls createBackup without testing len(changes)
AfterDetect_BackupAlways(chs, err) == "backup"

\* where the loop body goes once detectChanges has returned: the error is
\* logged; createBackup is called if len(changes) > 0, time.Sleep is next
\* otherwise
AfterDetect(chs, err) == IF Len(chs) > 0 THEN "backup" ELSE "sleep"

\* changes, err := detectChanges(watchPath, snapshot), followed call by
\* call: the walk reads the watched tree in separate system calls, and other
\* processes may modify the tree between any two of them.

\* what a call of the pass leaves alone
walkFrame == <<backupErr, loop, clock, fs, edits, backupDir, journal, lastTs, tsOrdered,
               restoreVars, dirs, backupPath>>

\* filepath.WalkDir starts: os.Lstat of the root, the callback on the root
\* (a directory: return nil) and ReadDir of the root
WalkRoot ==
  /\ pc = "detect" /\ walk.at = "start"
  /\ walk' = [walk EXCEPT !.at = "visit", !.names = RootEntries(fs, dirs)]
  /\ raced' = [raced EXCEPT !.pass = FALSE]
  /\ UNCHANGED <<pc, snapshot, changes, detectErr, scanned, faulted>>
  /\ UNCHANGED walkFrame

\* the callback on a directory (d.IsDir(): return nil), then ReadDir of the
\* directory, which lists its files
WalkEnter ==
  /\ pc = "detect" /\ walk.at = "visit"
  /\ \E j \in {NextEntry(walk.names, walk.i)} :
       /\ j <= Len(TreeOrder)
       /\ TreeOrder[j] \in DirNames /\ TreeOrder[j] \in dirs
       /\ walk' = [walk EXCEPT !.i = j + 1,
                               !.names = @ \cup {f \in DOMAIN fs : filepathDir(f) = TreeOrder[j]}]
  /\ UNCHANGED <<pc, snapshot, changes, detectErr, scanned, faulted, raced>>
  /\ UNCHANGED walkFrame

\* the callback on a regular file: hash, err := hashFile(path);
\* current[relPath] = hash; and the test of the hash against the snapshot
WalkHash ==
  /\ pc = "detect" /\ walk.at = "visit"
  /\ \E j \in {NextEntry(walk.names, walk.i)} :
       /\ j <= Len(TreeOrder)
       /\ TreeOrder[j] \in DOMAIN fs
       /\ LET p == TreeOrder[j]
              hash == hashFile(fs[p].content)
          IN walk' = [walk EXCEPT !.current = MapPut(@, p, hash),
                                  !.seen = MapPut(@, p, fs[p].content),
                                  !.i = IF IsChanged(snapshot, p, hash) THEN j ELSE j + 1,
                                  !.at = IF IsChanged(snapshot, p, hash) THEN "info" ELSE "visit"]
  /\ UNCHANGED <<pc, snapshot, changes, detectErr, scanned, faulted, raced>>
  /\ UNCHANGED walkFrame

\* info, err := d.Info(), on a changed file: an lstat of the file as it is
\* at this call
WalkInfo ==
  /\ pc = "detect" /\ walk.at = "info"
  /\ TreeOrder[walk.i] \in DOMAIN fs
  /\ LET f == fs[TreeOrder[walk.i]]
     IN walk' = [walk EXCEPT !.info = [mode |-> f.mode, mtime |-> f.mtime, size |-> f.content.len],
                             !.at = "read"]
  /\ UNCHANGED <<pc, snapshot, changes, detectErr, scanned, faulted, raced>>
  /\ UNCHANGED walkFrame

\* content, err := os.ReadFile(path); changes = append(changes, ..)
WalkRead ==
  /\ pc = "detect" /\ walk.at = "read"
  /\ TreeOrder[walk.i] \in DOMAIN fs
  /\ LET p == TreeOrder[walk.i]
     IN walk' = [walk EXCEPT
                   !.changes = Append(@, FileEntry(p, walk.info.mode, walk.info.mtime,
                                                   walk.info.size,
                                                   osReadFile(fs[p].content), FALSE)),
                   !.i = @ + 1, !.at = "visit", !.info = NoInfo]
  /\ UNCHANGED <<pc, snapshot, changes, detectErr, scanned, faulted, raced>>
  /\ UNCHANGED walkFrame

\* the walk is over: the tombstones, in the order ord in which the range
\* over snapshot visits the deleted paths, the update of the snapshot, and
\* the return to the loop body
WalkEnd ==
  /\ pc = "detect" /\ walk.at = "visit" /\ NextEntry(walk.names, walk.i) > Len(TreeOrder)
  /\ \E ord \in Orders(DeletedPaths(snapshot, walk.current)) :
       changes' = walk.changes \o TombstoneEntries(ord)
  /\ snapshot' = UpdateSnapshot(snapshot, walk.current)
  /\ detectErr' = "nil"
  /\ pc' = AfterDetect(changes', detectErr')
  /\ scanned' = walk.seen
  /\ walk' = WalkStart
  /\ UNCHANGED <<faulted, raced>>
  /\ UNCHANGED walkFrame

\* a call of the walk fails: os.Lstat or ReadDir of the root or of a
\* directory, hashFile, d.Info or os.ReadFile (also because the entry is
\* gone since it was listed). The callback returns the error, WalkDir
\* stops and detectChanges returns nil, err
WalkFail ==
  /\ pc = "detect"
  /\ walk.at = "visit" => NextEntry(walk.names, walk.i) <= Len(TreeOrder)
  /\ \E r \in {FailedPass(snapshot, walk.changes, walk.current)} :
       changes' = r.changes /\ snapshot' = r.snapshot
  /\ detectErr' = "walk"
  /\ pc' = AfterDetect(changes', detectErr')
  /\ faulted' = TRUE
  /\ walk' = WalkStart
  /\ UNCHANGED <<scanned, raced>>
  /\ UNCHANGED walkFrame

\* a call of the pass on a tree without directories
Pass == WalkRoot \/ WalkHash \/ WalkInfo \/ WalkRead \/ WalkEnd \/ WalkFail

\* if err := createBackup(backupPath, changes); the time of the call is
\* the clock's value
CreateBackup ==
  /\ pc = "backup"
  /\ LET timestamp == clock
     IN \E failAt \in 0..Len(PackChunks(changes, 1, << >>, 0)), created \in BOOLEAN :
          /\ failAt = 0 => created
          /\ LET r == createBackup(journal, changes, timestamp, failAt, created)
             IN journal' = r.dir /\ backupErr' = r.err
          /\ faulted' = (faulted \/ failAt > 0)
          /\ tsOrdered' = (tsOrdered /\ (lastTs >= 0 => (timestamp > lastTs
                                 /\ Len(Digits(timestamp)) = Len(Digits(lastTs)))))
          /\ lastTs' = timestamp
  /\ pc' = AfterBackup(backupErr')
  /\ snapshot' = SnapshotAfterBackup(snapshot, changes, backupErr')
  /\ UNCHANGED <<loop, clock, fs, edits, changes, detectErr, backupDir, scanned,
                 restoreVars, dirs, walk, backupPath, raced>>

\* time.Sleep(refresh seconds); refresh may be 0, and the clock may not
\* have reached the next second
Sleep ==
  /\ pc = "sleep"
  /\ \E d \in 0..(ClockMax - clock) : clock' = clock + d
  /\ pc' = "detect"
  /\ changes' = << >> /\ backupErr' = ErrNone   \* the iteration's variables go out of scope
  /\ UNCHANGED <<loop, fs, edits, snapshot, detectErr, backupDir, journal, scanned, lastTs,
                 faulted, tsOrdered, restoreVars, dirs, walk, backupPath, raced>>

Next ==
  \/ WriteFile
  \/ RemoveFile
  \/ RenameFile
  \/ WatchStart
  \/ WalkRoot
  \/ WalkHash
  \/ WalkInfo
  \/ WalkRead
  \/ WalkEnd
  \/ WalkFail
  \/ CreateBackup
  \/ Sleep

Spec == Init /\ [][Next]_vars

---------------------------------------------------------------------------
\* A watch session that starts one second earlier and sees one more
\* modification: three createBackup calls can get timestamps of the same
\* number of digits, each greater than the one before, and a file can be
\* created, removed and created again, each between two scans.

SessionStart == ClockBase - 1
SessionEdits == MaxEdits + 1

InitSession ==
  /\ clock = SessionStart
  /\ fs = EmptyMap
  /\ edits = 0
  /\ pc = "start"
  /\ snapshot = EmptyMap
  /\ changes = << >>
  /\ detectErr = "none"
  /\ backupErr = ErrNone
  /\ loop = LoopStart
  /\ backupDir = FALSE
  /\ journal = EmptyMap
  /\ targetDir = FALSE
  /\ target = EmptyMap
  /\ restoreErr = "none"
  /\ scanned = EmptyMap
  /\ lastTs = -1
  /\ faulted = FALSE
  /\ tsOrdered = TRUE
  /\ dirs = {}
  /\ targetDirs = {}
  /\ restoreFaults = NoFaults
  /\ walk = WalkStart
  /\ backupPath = "bk"
  /\ raced = NoRace

SessionWrite == WriteFileWithin(SessionEdits)
SessionRemove == RemoveFileWithin(SessionEdits)
SessionRename == RenameFileWithin(SessionEdits)

NextSession ==
  \/ SessionWrite
  \/ SessionRemove
  \/ SessionRename
  \/ WatchStart
  \/ WalkRoot
  \/ WalkHash
  \/ WalkInfo
  \/ WalkRead
  \/ WalkEnd
  \/ WalkFail
  \/ CreateBackup
  \/ Sleep

SpecSession == InitSession /\ [][NextSession]_vars

\* The loop's own steps are taken whenever they can be: detectChanges,
\* createBackup and time.Sleep return, and the goroutine is scheduled. Other
\* processes need not touch the tree.
SpecLive ==
  Init /\ [][Next]_vars
    /\ WF_vars(Pass) /\ WF_vars(CreateBackup) /\ WF_vars(Sleep)

---------------------------------------------------------------------------
\* restore, run on a backup directory that holds any chunk files.

\* records a chunk file may hold
RestoreRecords ==
  {FileEntry("a", 420, 5, 1, SmallBytes, FALSE),
   FileEntry("a", 420, 6, 3 * MiB, BigBytes, FALSE),
   Tombstone("a"),
   FileEntry("b", 292, 5, 1, SmallBytes, FALSE)}

\* a chunk file written by writeChunk with one record, or with two
\* different records of one path, or one that does not decode: cut short
\* before any record, or after a live record of "a" the decoder had filled
\* in. Records of two paths come in two chunk files.
RestoreFiles ==
  {GobFile(<<r>>) : r \in RestoreRecords}
    \cup {GobFile(c) : c \in {d \in [1..2 -> RestoreRecords] :
                                 d[1] # d[2] /\ d[1].Path = d[2].Path}}
    \cup {BadFile}
    \cup {Damaged(<<r>>) : r \in {x \in RestoreRecords : x.Path = "a" /\ ~x.Deleted}}

\* chunk_9_000.dat, chunk_9_001.dat and chunk_10_000.dat
RestoreNames == {ChunkFileName(9, 0), ChunkFileName(9, 1), ChunkFileName(10, 0)}

InitRestore ==
  /\ clock = ClockMax
  /\ fs = EmptyMap
  /\ edits = 0
  /\ pc = "exit"
  /\ snapshot = EmptyMap
  /\ changes = << >>
  /\ detectErr = "none"
  /\ backupErr = ErrNone
  /\ loop = LoopStart
  /\ \E names \in SUBSET RestoreNames :
       /\ Cardinality(names) <= MaxChunkFiles
       /\ journal \in [names -> RestoreFiles]
  /\ backupDir \in IF journal = EmptyMap THEN BOOLEAN ELSE {TRUE}
  /\ targetDir = FALSE
  /\ target = EmptyMap
  /\ restoreErr = "none"
  /\ scanned = EmptyMap
  /\ lastTs = -1
  /\ faulted = FALSE
  /\ tsOrdered = TRUE
  /\ dirs = {}
  /\ targetDirs = {}
  /\ restoreFaults = NoFaults
  /\ walk = WalkStart
  /\ backupPath \in BackupPaths
  /\ raced = NoRace

\* whether the process is privileged is looked at only when it decides
\* something: when some live path is an existing file the owner cannot write
Privileges(rp, tgt) ==
  IF \A p \in DOMAIN rp.st.fileData : CanWrite(tgt, p, FALSE) THEN {FALSE} ELSE BOOLEAN

\* the umask is looked at only when it decides something: when some live
\* path is to be created with a mode that has bits of 022
MaskChoices(rp, tgt) ==
  IF \A p \in DOMAIN rp.st.fileData :
       p \in DOMAIN tgt \/ BitClear(rp.st.fileData[p].Mode, Umask022) = rp.st.fileData[p].Mode
  THEN {Umask022} ELSE Umasks

Restore ==
  /\ \E mkdirOk \in BOOLEAN :
       IF ~mkdirOk
       THEN /\ restoreErr' = "mkdir"
            /\ faulted' = TRUE
            /\ restoreFaults' = [NoFaults EXCEPT !.mkdir = TRUE, !.torn = restoreFaults.torn]
            /\ UNCHANGED <<targetDir, target, targetDirs>>
       ELSE \E rp \in {Replay(backupPath, journal)} :
              \E ord \in Orders(DOMAIN rp.st.fileData), root \in Privileges(rp, target) :
                 \E at \in 0..Len(ord) :
                    \E stop \in {FirstFailure(target, ord, [NoInj EXCEPT !.at = at], root)} :
                       \* the failures chosen are those that happen: the
                       \* range stops at the first failed entry
                       /\ at \in {0, stop}
                       /\ \E inj \in (IF at = 0 THEN {NoInj}
                                       ELSE UNION {IF h = "write"
                                                   THEN {[at |-> at, how |-> h, kept |-> n] :
                                                           n \in Kept(rp.st.fileData[ord[at]].Content)}
                                                   ELSE {[at |-> at, how |-> h, kept |-> 0]} :
                                                     h \in Hows(target, ord[at], root)}) :
                            \E ctFail \in SUBSET {ord[k] : k \in 1..(IF stop = 0 THEN Len(ord)
                                                                        ELSE stop - 1)} :
                               \E umask \in MaskChoices(rp, target) :
                                  \E r \in {Finish(rp, target, ord, inj, root, ctFail, clock, umask)} :
                                     /\ restoreErr' = r.err
                                     /\ target' = r.target
                                     /\ targetDir' = TRUE
                                     /\ targetDirs' = targetDirs \cup r.dirs
                                     /\ faulted' = (faulted \/ rp.globErr \/ at > 0 \/ ctFail # {})
                                     /\ restoreFaults' =
                                          [mkdir |-> FALSE, glob |-> rp.globErr,
                                           write |-> stop # 0, chtimes |-> ctFail,
                                           torn |-> (restoreFaults.torn
                                                       \ {ord[k] : k \in 1..r.written})
                                                    \cup Torn(rp, ord, inj)]
  /\ UNCHANGED <<backupErr, loop, clock, fs, edits, pc, snapshot, changes, detectErr, backupDir, journal,
                 scanned, lastTs, tsOrdered, dirs, walk, backupPath, raced>>

NextRestore == Restore

SpecRestore == InitRestore /\ [][NextRestore]_vars

---------------------------------------------------------------------------
\* createBackup called on its own, as the tests call it: the change list is
\* any list of at most MaxEntries records, of contents that are empty,
\* small, 3 MiB, of accounted size exactly chunkSize, and 10 MiB; the backup
\* directory is empty or holds a chunk file of an earlier run.

EdgeBytes == [byte |-> 1, len |-> chunkSize - entryOverhead]
HugeBytes == [byte |-> 2, len |-> 10 * MiB]
WriterRecords ==
  {FileEntry("a", 420, 5, 1, SmallBytes, FALSE),
   FileEntry("b", 292, 6, 3 * MiB, BigBytes, FALSE),
   FileEntry("a", 420, 7, chunkSize - entryOverhead, EdgeBytes, FALSE),
   FileEntry("b", 493, 7, 10 * MiB, HugeBytes, FALSE),
   FileEntry("a", 420, 7, 0, NilBytes, FALSE),
   Tombstone("b")}
EntryLists == UNION {[1..n -> WriterRecords] : n \in 0..MaxEntries}
OldName == ChunkFileName(ClockBase - 1, 0)
OldJournals == {EmptyMap, [f \in {OldName} |-> GobFile(<<Tombstone("a")>>)]}

InitWriter ==
  /\ clock \in {ClockBase, ClockMax}
  /\ fs = EmptyMap
  /\ edits = 0
  /\ pc = "backup"
  /\ snapshot = EmptyMap
  /\ changes \in EntryLists
  /\ detectErr = "nil"
  /\ backupErr = ErrNone
  /\ loop = LoopStart
  /\ backupDir = TRUE
  /\ journal \in OldJournals
  /\ targetDir = FALSE
  /\ target = EmptyMap
  /\ restoreErr = "none"
  /\ scanned = EmptyMap
  /\ lastTs = -1
  /\ faulted = FALSE
  /\ tsOrdered = TRUE
  /\ dirs = {}
  /\ targetDirs = {}
  /\ restoreFaults = NoFaults
  /\ walk = WalkStart
  /\ backupPath = "bk"
  /\ raced = NoRace

NextWriter == CreateBackup

SpecWriter == InitWriter /\ [][NextWriter]_vars

---------------------------------------------------------------------------
\* The loop of createBackup followed one iteration at a time, so that a
\* call that writes more than a thousand chunks is within reach. The lists
\* are those of SpecWriter, with the record detectChanges builds for an
\* empty file, whose Content is empty and not nil, among the records; and
\* one list of MaxChunks records of 3 MiB, each
\* of which closes the chunk of the record before it; that call is taken up
\* after its first MaxChunks - LoopTail iterations, all of whose writeChunk
\* calls succeeded.

MaxChunks == 1001
LoopTail == 3
LoopRecords == WriterRecords \cup {FileEntry("b", 292, 9, 0, EmptyBytes, FALSE)}
LoopLists == UNION {[1..n -> LoopRecords] : n \in 0..MaxEntries}
LongList == [k \in 1..MaxChunks |-> FileEntry("a", 420, k, 3 * MiB, BigBytes, FALSE)]
\* the locals and the backup directory after m >= 1 iterations over LongList
LongListLoop(m) ==
  [i |-> m + 1, chunkNum |-> m - 1, currentChunk |-> <<LongList[m]>>,
   currentSize |-> EntrySize(LongList[m])]
LongListDir(timestamp, m) ==
  [f \in {ChunkFileName(timestamp, k) : k \in 0..(m - 2)} |->
     GobFile(<<LongList[CHOOSE k \in 1..(m - 1) : ChunkFileName(timestamp, k - 1) = f]>>)]

InitLoop ==
  /\ clock \in ClockBase..ClockMax
  /\ fs = EmptyMap
  /\ edits = 0
  /\ pc = "backup"
  /\ snapshot = EmptyMap
  /\ \/ changes \in LoopLists /\ loop = LoopStart /\ journal = EmptyMap
     \/ /\ changes = LongList
        /\ loop = LongListLoop(MaxChunks - LoopTail)
        /\ journal = LongListDir(clock, MaxChunks - LoopTail)
  /\ detectErr = "nil"
  /\ backupErr = ErrNone
  /\ backupDir = TRUE
  /\ targetDir = FALSE
  /\ target = EmptyMap
  /\ restoreErr = "none"
  /\ scanned = EmptyMap
  /\ lastTs = -1
  /\ faulted = FALSE
  /\ tsOrdered = TRUE
  /\ dirs = {}
  /\ targetDirs = {}
  /\ restoreFaults = NoFaults
  /\ walk = WalkStart
  /\ backupPath = "bk"
  /\ raced = NoRace

\* writeChunk(backupPath, timestamp, loop.chunkNum, loop.currentChunk) on the
\* directory dir: ok: it succeeds; otherwise it fails in os.Create
\* (created false) or in Encode (created true)
writeChunk(dir, timestamp, num, chunk, ok, created) ==
  IF ok THEN [err |-> ErrNil, dir |-> MapPut(dir, ChunkFileName(timestamp, num), GobFile(chunk))]
  ELSE [err |-> PathError(ChunkFileName(timestamp, num)),
        dir |-> IF created THEN MapPut(dir, ChunkFileName(timestamp, num), BadFile) ELSE dir]

loopFrame == <<clock, fs, edits, snapshot, changes, detectErr, backupDir, scanned, lastTs,
               tsOrdered, restoreVars, dirs, walk, backupPath, raced>>

\* one iteration of for _, entry := range entries
CreateBackupIter ==
  /\ pc = "backup" /\ loop.i <= Len(changes)
  /\ LET entry == changes[loop.i]
         entrySize == EntrySize(entry)
     IN IF loop.currentSize + entrySize > chunkSize /\ Len(loop.currentChunk) > 0
        THEN \E ok, created \in BOOLEAN :
               /\ ok => created
               /\ LET w == writeChunk(journal, clock, loop.chunkNum, loop.currentChunk,
                                      ok, created)
                  IN /\ journal' = w.dir
                     /\ IF ok
                        THEN /\ loop' = [i |-> loop.i + 1, chunkNum |-> loop.chunkNum + 1,
                                         currentChunk |-> <<entry>>, currentSize |-> entrySize]
                             /\ UNCHANGED <<pc, backupErr, faulted>>
                        ELSE /\ pc' = "sleep" /\ backupErr' = w.err /\ faulted' = TRUE
                             /\ loop' = loop
        ELSE /\ loop' = [loop EXCEPT !.i = @ + 1, !.currentChunk = Append(@, entry),
                                      !.currentSize = @ + entrySize]
             /\ UNCHANGED <<pc, backupErr, faulted, journal>>
  /\ UNCHANGED loopFrame

\* after the loop: the flush of the last chunk and the return
CreateBackupFlush ==
  /\ pc = "backup" /\ loop.i > Len(changes)
  /\ IF Len(loop.currentChunk) > 0
     THEN \E ok, created \in BOOLEAN :
            /\ ok => created
            /\ LET w == writeChunk(journal, clock, loop.chunkNum, loop.currentChunk,
                                   ok, created)
               IN journal' = w.dir /\ backupErr' = w.err /\ faulted' = (faulted \/ ~ok)
     ELSE journal' = journal /\ backupErr' = ErrNil /\ faulted' = faulted
  /\ pc' = "sleep"
  /\ UNCHANGED <<loop, loopFrame>>

NextLoop == CreateBackupIter \/ CreateBackupFlush

SpecChunkLoop == InitLoop /\ [][NextLoop]_vars

---------------------------------------------------------------------------
\* restore into a target that is not empty: files are there before restore
\* runs, at paths of the journal ("a", private; "b", read-only) and at a
\* path the journal never names ("u"), each with a content and a mode no
\* record has. One record has the mode 0666, which a umask of 022 cuts, and
\* no ModTime, as the records the tests build.

OldBytes == [byte |-> 111, len |-> 2]
OldFiles ==
  [a |-> [content |-> OldBytes, mode |-> 384, mtime |-> 1],
   b |-> [content |-> OldBytes, mode |-> 292, mtime |-> 1],
   u |-> [content |-> OldBytes, mode |-> 420, mtime |-> 1]]
OldTargets == {[p \in S \cup {"u"} |-> OldFiles[p]] : S \in SUBSET {"a", "b"}}
OverwriteRecords ==
  {FileEntry("a", 420, 5, 1, SmallBytes, FALSE),
   Tombstone("a"),
   FileEntry("b", 438, ZeroTime, 1, SmallBytes, FALSE)}
OverwriteFiles ==
  {GobFile(c) : c \in UNION {[1..n -> OverwriteRecords] : n \in 1..2}}
OverwriteNames == {ChunkFileName(9, 0), ChunkFileName(10, 0)}

InitOverwrite ==
  /\ clock = ClockMax
  /\ fs = EmptyMap
  /\ edits = 0
  /\ pc = "exit"
  /\ snapshot = EmptyMap
  /\ changes = << >>
  /\ detectErr = "none"
  /\ backupErr = ErrNone
  /\ loop = LoopStart
  /\ backupDir = TRUE
  /\ \E names \in (SUBSET OverwriteNames) \ {{}} : journal \in [names -> OverwriteFiles]
  /\ targetDir = TRUE
  /\ target \in OldTargets
  /\ restoreErr = "none"
  /\ scanned = EmptyMap
  /\ lastTs = -1
  /\ faulted = FALSE
  /\ tsOrdered = TRUE
  /\ dirs = {}
  /\ targetDirs = {}
  /\ restoreFaults = NoFaults
  /\ walk = WalkStart
  /\ backupPath = "bk"
  /\ raced = NoRace

NextOverwrite == Restore

SpecOverwrite == InitOverwrite /\ [][NextOverwrite]_vars

---------------------------------------------------------------------------
\* One pass of detectChanges over trees whose files have the same bytes,
\* no bytes, or bytes that differ in one place, with the snapshot an earlier
\* pass over such a tree left, while another process rewrites files.

HashTrees ==
  UNION {[S -> {[content |-> c, mode |-> 420, mtime |-> 1] : c \in HashContents}] :
           S \in SUBSET Paths}

InitHash ==
  /\ clock = ClockBase
  /\ fs \in HashTrees
  /\ edits = 0
  /\ pc = "detect"
  /\ snapshot \in {WalkCurrent(t) : t \in HashTrees}
  /\ changes = << >>
  /\ detectErr = "none"
  /\ backupErr = ErrNone
  /\ loop = LoopStart
  /\ backupDir = TRUE
  /\ journal = EmptyMap
  /\ targetDir = FALSE
  /\ target = EmptyMap
  /\ restoreErr = "none"
  /\ scanned = EmptyMap
  /\ lastTs = -1
  /\ faulted = FALSE
  /\ tsOrdered = TRUE
  /\ dirs = {}
  /\ targetDirs = {}
  /\ restoreFaults = NoFaults
  /\ walk = WalkStart
  /\ backupPath = "bk"
  /\ raced = NoRace

NextHash == WriteFile \/ WalkRoot \/ WalkHash \/ WalkInfo \/ WalkRead \/ WalkEnd \/ WalkFail

SpecHash == InitHash /\ [][NextHash]_vars

---------------------------------------------------------------------------
\* A watch session on a tree in which directories come and go, followed by
\* one restore of the backup directory, run while the loop sleeps.

\* a directory is created under the watched root. The walk's callback
\* returns nil on it (d.IsDir()): no record names it.
MakeDir ==
  /\ BetweenScans /\ edits < MaxEdits
  /\ \E d \in DirNames \ dirs : dirs' = dirs \cup {d}
  /\ edits' = edits + 1
  /\ raced' = Raced(walk, raced)
  /\ UNCHANGED <<backupErr, loop, clock, fs, pc, snapshot, changes, detectErr, backupDir, journal,
                 scanned, lastTs, faulted, tsOrdered, restoreVars, walk, backupPath>>

\* a file is created or rewritten in a directory that is there
WriteNested ==
  /\ BetweenScans /\ edits < MaxEdits
  /\ \E p \in NestedPaths :
       /\ filepathDir(p) \in dirs
       /\ p \in DOMAIN fs => fs[p].content # SmallBytes
       /\ fs' = MapPut(fs, p, [content |-> SmallBytes, mode |-> FileModeOf(p), mtime |-> clock])
  /\ edits' = edits + 1
  /\ raced' = Raced(walk, raced)
  /\ UNCHANGED <<backupErr, loop, clock, pc, snapshot, changes, detectErr, backupDir, journal, scanned,
                 lastTs, faulted, tsOrdered, restoreVars, dirs, walk, backupPath>>

\* an empty directory is removed
RemoveDir ==
  /\ BetweenScans /\ edits < MaxEdits
  /\ \E d \in dirs :
       /\ \A f \in DOMAIN fs : filepathDir(f) # d
       /\ dirs' = dirs \ {d}
  /\ edits' = edits + 1
  /\ raced' = Raced(walk, raced)
  /\ UNCHANGED <<backupErr, loop, clock, fs, pc, snapshot, changes, detectErr, backupDir, journal,
                 scanned, lastTs, faulted, tsOrdered, restoreVars, walk, backupPath>>

\* main in restore mode, started once, while the watch loop sleeps
RestoreAsleep == pc = "sleep" /\ restoreErr = "none" /\ Restore

InitTree == Init

NextTree ==
  \/ WriteFile
  \/ RemoveFile
  \/ RenameFile
  \/ MakeDir
  \/ WriteNested
  \/ RemoveDir
  \/ WatchStart
  \/ WalkRoot
  \/ WalkEnter
  \/ WalkHash
  \/ WalkInfo
  \/ WalkRead
  \/ WalkEnd
  \/ WalkFail
  \/ CreateBackup
  \/ Sleep
  \/ RestoreAsleep

SpecTree == InitTree /\ [][NextTree]_vars

---------------------------------------------------------------------------
\* Journal order, stated on the backup directory itself and not through the
\* fold: a record sits at position <<f, i>>, the i-th entry of the decodable
\* chunk file named f; positions are ordered by file name, then by index.

Decodable(dir) == {f \in DOMAIN dir : dir[f].ok}
Positions(dir) == UNION {{<<f, i>> : i \in 1..Len(readChunk(dir[f]))} : f \in Decodable(dir)}
RecordAt(dir, x) == readChunk(dir[x[1]])[x[2]]
Before(x, y) == StrLess(x[1], y[1]) \/ (x[1] = y[1] /\ x[2] < y[2])
PositionsOf(dir, p) == {x \in Positions(dir) : RecordAt(dir, x).Path = p}
\* the last record of path p in journal order: a set of at most one record
LastRecords(dir, p) ==
  UNION {{RecordAt(dir, x) : x \in {y \in S : \A z \in S : ~Before(y, z)}} :
           S \in {PositionsOf(dir, p)}}
\* the path's last record is a live one
LastIsLive(dir, p) == \E r \in LastRecords(dir, p) : ~r.Deleted

---------------------------------------------------------------------------
\* Properties of the watch loop, checked under Spec.

\* a step of the loop in which a pass of detectChanges returns err == nil
PassOk == pc = "detect" /\ pc' # "detect" /\ detectErr' = "nil"
\* no file was modified between two calls of the pass that is returning,
\* or that has returned last
Undisturbed == ~raced.pass
\* the indices of the records of path p in a change list
RecordsOf(chs, p) == {i \in DOMAIN chs : chs[i].Path = p}

\* C3: for any two chunk files the writer has left in the backup directory,
\* byte-wise order of the file names is the order of (timestamp, sequence
\* number).
C3_NameOrderIsWriteOrder ==
  \A t1, t2 \in ClockBase..ClockMax : \A k1, k2 \in 0..Len(WalkOrder) :
     (ChunkFileName(t1, k1) \in DOMAIN journal /\ ChunkFileName(t2, k2) \in DOMAIN journal)
       => (StrLess(ChunkFileName(t1, k1), ChunkFileName(t2, k2))
             <=> (t1 < t2 \/ (t1 = t2 /\ k1 < k2)))

\* C6, checked under SpecSession: end-to-end consistency. When the files
\* were modified between the scans only, every pass and every createBackup
\* so far succeeded, each createBackup got a timestamp greater than the one
\* before and of the same number of digits, and no chunk file is damaged,
\* then restore of the backup directory into an empty target gives exactly
\* the files that existed at the last pass, with the contents they had
\* then, whatever order the range over fileData takes.
C6_EndToEnd ==
  (pc # "backup" /\ ~faulted /\ tsOrdered /\ ~raced.ever) =>
    \A ord \in Orders(DOMAIN Replay(backupPath, journal).st.fileData) :
       LET r == restore(backupPath, journal, EmptyMap, TRUE, ord, NoInj, FALSE, {}, clock, Umask022)
       IN /\ r.err = IF DOMAIN journal = {} THEN "nochunks" ELSE "nil"
          /\ [p \in DOMAIN r.target |-> r.target[p].content] = scanned

\* C6 case: "a" was created, removed and created again with another
\* content, each between two scans; three createBackup runs, at three
\* timestamps of the same number of digits, wrote its live record, its
\* tombstone and its live record again, and the loop is asleep after the
\* third, with "a" under the root.
C6_Witness ==
  /\ pc = "sleep" /\ ~faulted /\ tsOrdered /\ ~raced.ever
  /\ "a" \in DOMAIN scanned
  /\ \E f, g, h \in DOMAIN journal :
       /\ StrLess(f, g) /\ StrLess(g, h)
       /\ \A x \in {f, g, h} : readChunk(journal[x])[1].Path = "a"
       /\ ~readChunk(journal[f])[1].Deleted
       /\ readChunk(journal[g])[1].Deleted
       /\ ~readChunk(journal[h])[1].Deleted
       /\ readChunk(journal[h])[1].Content # readChunk(journal[f])[1].Content
       /\ readChunk(journal[h])[1].Content = scanned["a"]

\* C7: the backup directory is append-only: a chunk file, once there, is
\* still there with the same bytes after every later step.
C7_AppendOnly ==
  [][\A f \in DOMAIN journal : f \in DOMAIN journal' /\ journal'[f] = journal[f]]_vars

\* C8: a successful pass emits, for every regular file that is not in the
\* snapshot or whose hash differs from the snapshot's, exactly one record,
\* a live one with the file's content, mode, modification time and size;
\* for a file whose hash equals the snapshot's it emits no record. The
\* file is the one the pass read: when no file was modified between two
\* calls of the pass, the file under the root; in any pass, the classes are
\* those of the hashes the walk computed.
C8_LiveRecords ==
  [][PassOk =>
       /\ Undisturbed =>
            \A p \in DOMAIN fs :
               IF p \notin DOMAIN snapshot \/ snapshot[p] # hashFile(fs[p].content)
               THEN \E i \in DOMAIN changes' :
                      /\ RecordsOf(changes', p) = {i}
                      /\ changes'[i] = [Path |-> p, Mode |-> fs[p].mode, ModTime |-> fs[p].mtime,
                                        Size |-> fs[p].content.len,
                                        Content |-> osReadFile(fs[p].content),
                                        Deleted |-> FALSE]
               ELSE RecordsOf(changes', p) = {}
       /\ \A p \in DOMAIN walk.current :
            IF p \notin DOMAIN snapshot \/ snapshot[p] # walk.current[p]
            THEN \E i \in DOMAIN changes' : RecordsOf(changes', p) = {i} /\ ~changes'[i].Deleted
            ELSE RecordsOf(changes', p) = {}]_vars

\* C8 case: a pass has just reported "a" with a content other than the one
\* an earlier chunk file recorded for it: a changed file.
C8_Witness ==
  /\ pc = "backup" /\ detectErr = "nil" /\ Undisturbed
  /\ \E i \in DOMAIN changes : \E f \in DOMAIN journal :
       /\ changes[i].Path = "a" /\ ~changes[i].Deleted
       /\ journal[f].ok /\ readChunk(journal[f])[1].Path = "a"
       /\ ~readChunk(journal[f])[1].Deleted
       /\ readChunk(journal[f])[1].Content # changes[i].Content
       /\ fs["a"].content = changes[i].Content

\* C8 case: a pass has just reported the new file "b" and nothing for "a",
\* which is in the snapshot with the hash of its content.
C8_WitnessUnchanged ==
  /\ pc = "backup" /\ detectErr = "nil" /\ Undisturbed
  /\ DOMAIN fs = {"a", "b"}
  /\ RecordsOf(changes, "a") = {} /\ RecordsOf(changes, "b") # {}
  /\ snapshot["a"] = hashFile(fs["a"].content)

\* C9: a successful pass emits, for every path of the snapshot that the
\* walk did not see, exactly one record, a tombstone with only Path set,
\* and removes the path from the snapshot; it emits a tombstone for no
\* other path.
C9_Tombstones ==
  [][PassOk =>
       \A p \in Paths :
          IF p \in DOMAIN snapshot /\ p \notin DOMAIN walk.current
          THEN /\ \E i \in DOMAIN changes' :
                    /\ RecordsOf(changes', p) = {i}
                    /\ changes'[i] = [Path |-> p, Mode |-> 0, ModTime |-> ZeroTime, Size |-> 0,
                                      Content |-> NilBytes, Deleted |-> TRUE]
               /\ p \notin DOMAIN snapshot'
          ELSE \A i \in RecordsOf(changes', p) : ~changes'[i].Deleted]_vars

\* C9 case: a pass has just reported the removal of "a", which an earlier
\* pass had recorded, and "a" is gone from the snapshot.
C9_Witness ==
  /\ pc = "backup" /\ detectErr = "nil"
  /\ "a" \notin DOMAIN fs /\ "a" \notin DOMAIN snapshot
  /\ \E i \in DOMAIN changes : changes[i].Path = "a" /\ changes[i].Deleted
  /\ \E f \in DOMAIN journal : journal[f].ok /\ readChunk(journal[f])[1].Path = "a"

\* C10: a pass that follows a successful pass, with the watched files as
\* that pass read them and not modified while this pass runs, emits the
\* empty change list and leaves the snapshot as it is.
C10_IdempotentPass ==
  [][(PassOk /\ detectErr = "nil" /\ Undisturbed
        /\ [p \in DOMAIN fs |-> fs[p].content] = scanned)
       => (changes' = << >> /\ snapshot' = snapshot)]_vars

\* C10 case: one file was written and recorded, nothing was touched since,
\* every pass succeeded, and the last pass returned the empty list.
C10_Witness ==
  /\ pc = "sleep" /\ detectErr = "nil" /\ ~faulted /\ ~raced.ever
  /\ edits = 1 /\ DOMAIN journal # {}
  /\ snapshot # EmptyMap
  /\ changes = << >>

\* C11: a pass whose walk or file read fails returns the error with an
\* empty change list and leaves the snapshot exactly as it was before the
\* pass, whatever the walk had hashed and collected before it failed.
C11_ErrorAtomicity ==
  [][(pc = "detect" /\ pc' # "detect" /\ detectErr' = "walk")
       => (changes' = << >> /\ snapshot' = snapshot)]_vars

\* C11 case: a pass has just failed while the tree differs from a non-empty
\* snapshot: there were live records or tombstones to report, none is
\* returned and the snapshot still holds the earlier pass's hashes.
C11_Witness ==
  /\ pc = "sleep" /\ detectErr = "walk"
  /\ changes = << >>
  /\ snapshot # EmptyMap
  /\ snapshot # [p \in DOMAIN fs |-> hashFile(fs[p].content)]

\* C12: after a successful pass the snapshot is exactly the map from each
\* regular file the pass read to the hash the pass computed of it, and,
\* until the tree is modified again, that is the map from each regular
\* file under the root to the hash of its content: no path is missing,
\* none is stale, none is extra.
C12_SnapshotIsTree ==
  (pc \in {"backup", "sleep"} /\ detectErr = "nil") =>
    /\ snapshot = [p \in DOMAIN scanned |-> hashFile(scanned[p])]
    /\ Undisturbed => snapshot = [p \in DOMAIN fs |-> hashFile(fs[p].content)]

\* C12 case: a pass has succeeded on a tree where "a" has another content
\* than the one an earlier chunk file recorded, and the snapshot holds the
\* hash of the new content.
C12_Witness ==
  /\ pc = "sleep" /\ detectErr = "nil" /\ Undisturbed
  /\ "a" \in DOMAIN fs /\ "a" \in DOMAIN snapshot
  /\ snapshot["a"] = hashFile(fs["a"].content)
  /\ \E f, g \in DOMAIN journal :
       /\ journal[f].ok /\ journal[g].ok /\ StrLess(f, g)
       /\ readChunk(journal[f])[1].Path = "a" /\ readChunk(journal[g])[1].Path = "a"
       /\ readChunk(journal[f])[1].Content # fs["a"].content
       /\ readChunk(journal[g])[1].Content = fs["a"].content

---------------------------------------------------------------------------
\* Properties of createBackup, checked under SpecWriter.

\* a step that is a call of createBackup
BackupStep == pc = "backup" /\ pc' = "sleep"
\* createBackup has returned nil
BackupDone == pc = "sleep" /\ backupErr = ErrNil
\* the chunk files of the call: all but the file of the earlier run
WrittenNames == DOMAIN journal \ {OldName}
\* the name of the call's chunk file of sequence number k
NameOfSeq(k) == ChunkFileName(lastTs, k)
RECURSIVE ConcatSegments(_, _, _)
\* the entries of the chunk files of sequence numbers k .. n-1 of dir, in order
ConcatSegments(dir, k, n) ==
  IF k >= n THEN << >>
  ELSE readChunk(dir[ChunkFileName(clock, k)]) \o ConcatSegments(dir, k + 1, n)
RECURSIVE AccountedSize(_, _)
\* content lengths plus 1024 bytes each, over the entries es[i..]
AccountedSize(es, i) ==
  IF i > Len(es) THEN 0 ELSE es[i].Content.len + 1024 + AccountedSize(es, i + 1)
FiveMiB == 5 * 1024 * 1024

\* C13: after a createBackup that returned nil, the chunk files it wrote
\* have the sequence numbers 0 .. n-1, each decodes and holds at least one
\* record, and their entries, concatenated in sequence order, are the
\* change list: the same records in the same order.
C13_WriterComplete ==
  BackupDone =>
    LET n == Cardinality(WrittenNames)
    IN /\ \A k \in 0..(n - 1) :
            /\ NameOfSeq(k) \in DOMAIN journal
            /\ journal[NameOfSeq(k)].ok
            /\ Len(readChunk(journal[NameOfSeq(k)])) >= 1
       /\ ConcatSegments(journal, 0, n) = changes

\* C13 case: a list of MaxEntries records was written as several chunk
\* files, one of them holding two records or more.
C13_Witness ==
  /\ BackupDone /\ Len(changes) = MaxEntries
  /\ Cardinality(WrittenNames) >= 2
  /\ \E f \in WrittenNames : Len(readChunk(journal[f])) >= 2

\* C14: after a createBackup that returned nil, a chunk file with two
\* records or more has an accounted size (content length + 1024 per
\* record) of at most 5 MiB, and a record whose accounted size exceeds
\* 5 MiB is alone in its chunk file; four 3 MiB records take at least two
\* chunk files and one 10 MiB record takes exactly one.
C14_SoftLimit ==
  BackupDone =>
    /\ \A f \in WrittenNames :
         LET es == readChunk(journal[f])
         IN /\ Len(es) >= 2 => AccountedSize(es, 1) <= FiveMiB
            /\ \A i \in DOMAIN es : es[i].Content.len + 1024 > FiveMiB => Len(es) = 1
    /\ (Len(changes) = 4 /\ \A i \in DOMAIN changes : changes[i].Content.len = 3 * MiB)
         => Cardinality(WrittenNames) >= 2
    /\ (Len(changes) = 1 /\ changes[1].Content.len = 10 * MiB)
         => Cardinality(WrittenNames) = 1

\* C14 case: four 3 MiB records were written, to two chunk files or more.
C14_Witness ==
  /\ BackupDone /\ Len(changes) = 4
  /\ \A i \in DOMAIN changes : changes[i].Content.len = 3 * MiB
  /\ Cardinality(WrittenNames) >= 2

\* C14 case: a 10 MiB record between two small ones is alone in its file.
C14_WitnessHuge ==
  /\ BackupDone /\ Len(changes) = 3
  /\ changes[1].Content.len = 1 /\ changes[2].Content.len = 10 * MiB
  /\ changes[3].Content.len = 1
  /\ Cardinality(WrittenNames) = 3

\* C15: createBackup called with an empty list returns nil, creates no file
\* and leaves the backup directory as it is.
C15_EmptyListNoOp ==
  [][(BackupStep /\ changes = << >>)
       => (backupErr' = ErrNil /\ journal' = journal /\ backupDir' = backupDir)]_vars

\* C15 case: createBackup has returned nil on the empty list, in a backup
\* directory that holds the chunk file of an earlier run and nothing else.
C15_Witness ==
  /\ BackupDone /\ changes = << >>
  /\ DOMAIN journal = {OldName}

\* C17: when the writeChunk call of sequence number N fails, createBackup
\* returns that error, the chunk files 0 .. N-1 of the call are in the
\* directory, decode, and hold the first records of the list in order, no
\* file of a sequence number above N is written, and no other file of the
\* directory changes.
C17_NoRollback ==
  [][(BackupStep /\ faulted' /\ ~faulted) =>
       /\ backupErr'.kind = "write"
       /\ \E N \in 0..Len(changes) :
            /\ backupErr'.name = ChunkFileName(clock, N)
            /\ \A k \in 0..(N - 1) :
                 /\ ChunkFileName(clock, k) \in DOMAIN journal'
                 /\ journal'[ChunkFileName(clock, k)].ok
                 /\ Len(readChunk(journal'[ChunkFileName(clock, k)])) >= 1
            /\ LET kept == ConcatSegments(journal', 0, N)
               IN Len(kept) < Len(changes) /\ kept = SubSeq(changes, 1, Len(kept))
            /\ \A k \in (N + 1)..Len(changes) : ChunkFileName(clock, k) \notin DOMAIN journal'
            /\ ChunkFileName(clock, N) \in DOMAIN journal' => ~journal'[ChunkFileName(clock, N)].ok
            /\ \A f \in DOMAIN journal : f \in DOMAIN journal' /\ journal'[f] = journal[f]]_vars

\* C17 case: three 3 MiB records make three chunks; the second writeChunk
\* failed: file 0 is there and decodes, file 2 was never written.
C17_Witness ==
  /\ pc = "sleep" /\ backupErr = PathError(NameOfSeq(1))
  /\ Len(changes) = 3 /\ \A i \in DOMAIN changes : changes[i].Content.len = 3 * MiB
  /\ journal[NameOfSeq(0)].ok /\ readChunk(journal[NameOfSeq(0)]) = <<changes[1]>>
  /\ NameOfSeq(2) \notin DOMAIN journal

\* C27: of two chunk files with consecutive sequence numbers that one
\* createBackup wrote, the first is full for the second's first record:
\* its accounted size (content length + 1024 per record) plus that record's
\* accounted size exceeds 5 MiB.
C27_TightPacking ==
  pc = "sleep" =>
    \A k \in 0..Len(changes) :
       (/\ NameOfSeq(k) \in Decodable(journal) /\ NameOfSeq(k + 1) \in Decodable(journal))
         => AccountedSize(readChunk(journal[NameOfSeq(k)]), 1)
              + readChunk(journal[NameOfSeq(k + 1)])[1].Content.len + 1024 > FiveMiB

\* C27 case: createBackup wrote two chunk files or more, the first with
\* two records or more that stay within 5 MiB.
C27_Witness ==
  /\ BackupDone
  /\ NameOfSeq(1) \in DOMAIN journal
  /\ Len(readChunk(journal[NameOfSeq(0)])) >= 2
  /\ AccountedSize(readChunk(journal[NameOfSeq(0)]), 1) <= FiveMiB

---------------------------------------------------------------------------
\* Properties of the loop of createBackup, checked under SpecChunkLoop.

\* The loop followed step by step ends as createBackup taken as one step
\* does: with the same error and the same directory, for some failing call.
LoopAgreesWithCreateBackup ==
  (pc = "sleep" /\ Len(changes) <= MaxEntries) =>
    \E failAt \in 0..Len(changes), created \in BOOLEAN :
       /\ failAt <= Len(PackChunks(changes, 1, << >>, 0))
       /\ createBackup(EmptyMap, changes, clock, failAt, created)
            = [err |-> backupErr, dir |-> journal]

RECURSIVE IndexFrom(_, _, _)
\* the position of the first byte b of s at or after position i, 0 when none
IndexFrom(s, b, i) ==
  IF i > Len(s) THEN 0 ELSE IF s[i] = b THEN i ELSE IndexFrom(s, b, i + 1)
\* the fields of a name chunk_<timestamp>_<seq>.dat
TimestampField(f) == SubSeq(f, 7, IndexFrom(f, 95, 7) - 1)
SequenceField(f) == SubSeq(f, IndexFrom(f, 95, 7) + 1, IndexFrom(f, 46, 7) - 1)
RECURSIVE ParseDecimal(_)
ParseDecimal(s) ==
  IF s = << >> THEN 0
  ELSE 10 * ParseDecimal(SubSeq(s, 1, Len(s) - 1)) + (s[Len(s)] - 48)

\* C16: at every point of a createBackup call the chunk files it has
\* written carry the call's timestamp, their sequence numbers are exactly
\* 0 .. n-1, n being the number of chunks closed so far, and each sequence
\* number is written with three digits.
C16_SegmentNaming ==
  /\ \A f \in DOMAIN journal :
       /\ TimestampField(f) = Digits(clock)
       /\ Len(SequenceField(f)) = 3
  /\ {ParseDecimal(SequenceField(f)) : f \in DOMAIN journal}
       = 0..(Cardinality(DOMAIN journal) - 1)
  /\ pc = "backup" => Cardinality(DOMAIN journal) = loop.chunkNum

\* the entries e and d agree in path, mode, modification time, size, content
\* bytes and deleted flag
SameFields(e, d) ==
  /\ e.Path = d.Path
  /\ e.Mode = d.Mode
  /\ e.ModTime = d.ModTime
  /\ e.Size = d.Size
  /\ BytesOf(e.Content) = BytesOf(d.Content)
  /\ e.Deleted = d.Deleted

\* C18: in every step of createBackup that calls writeChunk, when the call
\* returns nil the chunk file it wrote decodes, and whenever that file
\* decodes, reading it back gives as many records as the chunk handed to
\* writeChunk, in the same order, each with the same path, mode,
\* modification time, size, content bytes and deleted flag.
C18_RoundTrip ==
  [][(pc = "backup" /\ journal' # journal) =>
       LET name == ChunkFileName(clock, loop.chunkNum)
           chunk == loop.currentChunk
       IN /\ name \in DOMAIN journal'
          /\ (loop'.chunkNum # loop.chunkNum \/ backupErr' = ErrNil) => ReadOk(journal'[name])
          /\ ReadOk(journal'[name]) =>
               /\ Len(readChunk(journal'[name])) = Len(chunk)
               /\ \A i \in DOMAIN chunk : SameFields(readChunk(journal'[name])[i], chunk[i])]_vars

\* C18 case: writeChunk was handed one chunk of a live record, the record of
\* an empty file, whose Content is empty and not nil, and a tombstone. The
\* file carries the tombstone as its Path and Deleted alone, and for the
\* empty file no Content; read back, the second record has a nil Content,
\* so the chunk read is not the value that was written, and has its fields.
C18_Witness ==
  /\ pc = "sleep" /\ backupErr = ErrNil /\ Len(changes) = 3
  /\ changes[1].Content = SmallBytes /\ ~changes[1].Deleted
  /\ changes[2].Content = EmptyBytes /\ ~changes[2].Deleted
  /\ changes[3].Deleted
  /\ DOMAIN journal = {ChunkFileName(clock, 0)}
  /\ LET file == journal[ChunkFileName(clock, 0)]
     IN /\ ReadOk(file)
        /\ file.wire[3] = [Path |-> changes[3].Path, Deleted |-> TRUE]
        /\ "Content" \notin DOMAIN file.wire[2]
        /\ readChunk(file) # changes
        /\ readChunk(file)[2].Content = NilBytes
        /\ \A i \in DOMAIN changes : SameFields(readChunk(file)[i], changes[i])

---------------------------------------------------------------------------
\* Properties of restore, checked under SpecRestore.

\* C1: last-writer-wins replay. Every path restore has materialised, that
\* is, written without an error of os.WriteFile, holds the content of the
\* last record of that path in journal order (file name order, then record
\* order within the file) among the decodable chunk files; after a restore
\* that returned nil these are all the paths at the target.
C1_LastWriterWins ==
  /\ \A p \in (DOMAIN target) \ restoreFaults.torn :
       \E r \in LastRecords(journal, p) : target[p].content = r.Content
  /\ restoreErr = "nil" => restoreFaults.torn = {}

\* C1 case: two chunk files hold live records of "a" with different
\* contents, restore returned nil and "a" has the content of the later one.
C1_Witness ==
  /\ restoreErr = "nil"
  /\ \E x, y \in PositionsOf(journal, "a") :
       /\ x[1] # y[1] /\ Before(x, y)
       /\ ~RecordAt(journal, x).Deleted /\ ~RecordAt(journal, y).Deleted
       /\ RecordAt(journal, x).Content # RecordAt(journal, y).Content
       /\ RecordAt(journal, y) \in LastRecords(journal, "a")
       /\ "a" \in DOMAIN target
       /\ target["a"].content = RecordAt(journal, y).Content

\* C2: tombstones. After a restore into an empty target that returned nil,
\* a path exists at the target exactly when its last record in journal order
\* is not a tombstone, and then with that record's content: a path created
\* and then deleted is absent, a path created, deleted and created again is
\* present with the content of the record that created it again.
C2_TombstoneSemantics ==
  restoreErr = "nil" =>
    \A p \in Paths :
       /\ p \in DOMAIN target <=> LastIsLive(journal, p)
       /\ \A r \in LastRecords(journal, p) :
            IF r.Deleted THEN p \notin DOMAIN target
            ELSE target[p].content = r.Content

\* C2 case: "a" has a live record, then a tombstone, then a live record with
\* another content; restore returned nil and "a" holds the last content,
\* while "b" was created and deleted and is absent.
C2_Witness ==
  /\ restoreErr = "nil"
  /\ \E x, y, z \in PositionsOf(journal, "a") :
       /\ Before(x, y) /\ Before(y, z)
       /\ ~RecordAt(journal, x).Deleted
       /\ RecordAt(journal, y).Deleted
       /\ ~RecordAt(journal, z).Deleted
       /\ RecordAt(journal, z).Content # RecordAt(journal, x).Content
       /\ "a" \in DOMAIN target
       /\ target["a"].content = RecordAt(journal, z).Content

\* C2 case, second half: "a" was created and then deleted, and a restore
\* that returned nil did not create it.
C2_WitnessDeleted ==
  /\ restoreErr = "nil"
  /\ \E x, y \in PositionsOf(journal, "a") :
       /\ Before(x, y) /\ ~RecordAt(journal, x).Deleted
       /\ RecordAt(journal, y) \in LastRecords(journal, "a")
       /\ RecordAt(journal, y).Deleted
  /\ "a" \notin DOMAIN target

\* C4: corrupted chunk files. With at least one chunk file present, a
\* restore that nothing else stops (MkdirAll, Glob and every WriteFile
\* succeed) returns nil whatever number of chunk files fail to
\* decode, and the target holds exactly the fold of the decodable ones: a
\* file that does not decode contributes no record, and when none decodes
\* nothing is restored.
C4_CorruptedSkipped ==
  (DOMAIN journal # {} /\ restoreErr \notin {"none", "mkdir", "glob", "write"}) =>
    /\ restoreErr = "nil"
    /\ DOMAIN target = {p \in Paths : LastIsLive(journal, p)}
    /\ \A p \in DOMAIN target :
         \A r \in LastRecords(journal, p) : target[p].content = r.Content
    /\ (Decodable(journal) = {} => target = EmptyMap)

\* C4 case: one chunk file decodes and one does not; the decoder had filled
\* in a record of "a" from the damaged file before it failed; restore
\* returned nil and restored "a" from the decodable file, with another content.
C4_Witness ==
  /\ restoreErr = "nil"
  /\ \E f, g \in DOMAIN journal :
       /\ ~journal[f].ok /\ journal[g].ok
       /\ Len(readChunk(journal[f])) > 0
       /\ readChunk(journal[f])[1].Path = "a" /\ ~readChunk(journal[f])[1].Deleted
       /\ StrLess(g, f)
       /\ "a" \in DOMAIN target
       /\ target["a"].content # readChunk(journal[f])[1].Content

\* C4 case: every chunk file is damaged, restore returned nil and restored
\* nothing.
C4_WitnessAllCorrupt ==
  /\ restoreErr = "nil"
  /\ Cardinality(DOMAIN journal) = MaxChunkFiles
  /\ Decodable(journal) = {}
  /\ \E f \in DOMAIN journal : Len(readChunk(journal[f])) > 0
  /\ target = EmptyMap /\ targetDir

\* C5: empty journal. When the backup directory holds no chunk file (or
\* does not exist) restore returns an error, writes no file, and leaves at
\* most the target directory behind.
C5_EmptyJournalFails ==
  (DOMAIN journal = {} /\ restoreErr # "none") =>
    /\ restoreErr \in {"nochunks", "mkdir", "glob"}
    /\ target = EmptyMap
    /\ (restoreErr \in {"nochunks", "glob"} => targetDir)

\* C5 case: restore ran on a backup directory that does not exist, created
\* the target directory and returned the error.
C5_Witness ==
  /\ ~backupDir /\ DOMAIN journal = {} /\ ~BadPattern(backupPath)
  /\ restoreErr = "nochunks"
  /\ targetDir /\ target = EmptyMap

\* C28: restore returns an error exactly when os.MkdirAll(restorePath)
\* failed, or filepath.Glob failed (the name of the backup directory is a
\* malformed pattern), or the backup directory holds no chunk file, or
\* MkdirAll or WriteFile on a live path failed. A Chtimes that fails is no such case:
\* restore still returns nil, and then every live path is at the target
\* with the content of its last record.
C28_RestoreErrors ==
  restoreErr # "none" =>
    /\ (restoreErr = "mkdir") <=> restoreFaults.mkdir
    /\ (restoreErr = "glob") <=> (~restoreFaults.mkdir /\ BadPattern(backupPath))
    /\ (restoreErr = "nochunks") <=>
         (~restoreFaults.mkdir /\ ~BadPattern(backupPath) /\ DOMAIN journal = {})
    /\ (restoreErr = "write") <=> restoreFaults.write
    /\ (restoreErr = "nil") <=>
         (~restoreFaults.mkdir /\ ~BadPattern(backupPath) /\ DOMAIN journal # {}
            /\ ~restoreFaults.write)
    /\ restoreErr = "nil" =>
         \A p \in Paths :
            LastIsLive(journal, p) =>
              /\ p \in DOMAIN target
              /\ \E r \in LastRecords(journal, p) : target[p].content = r.Content

\* C28 case: "a" and "b" are live; Chtimes failed on "a", which has the
\* time of the run and not its record's; restore returned nil and "b" is
\* there with its content and its record's time.
C28_Witness ==
  /\ restoreErr = "nil" /\ restoreFaults.chtimes = {"a"}
  /\ DOMAIN target = {"a", "b"}
  /\ target["a"].mtime = clock
  /\ \E r \in LastRecords(journal, "a") : target["a"].content = r.Content /\ r.ModTime # clock
  /\ \E r \in LastRecords(journal, "b") :
       target["b"].content = r.Content /\ target["b"].mtime = r.ModTime

\* C31: when restore has returned nil and runs again on the same journal
\* and the target it left, with no failure of the environment in either
\* run, it returns nil again and every live path keeps the content and the
\* mode the first run left, read-only files included.
C31_RestoreRepeatable ==
  [][(restoreErr = "nil" /\ ~faulted')
       => /\ restoreErr' = "nil"
          /\ \A p \in DOMAIN target :
               LastIsLive(journal, p) =>
                 /\ p \in DOMAIN target'
                 /\ target'[p].content = target[p].content
                 /\ target'[p].mode = target[p].mode]_vars

---------------------------------------------------------------------------
\* Properties of restore into a target that is not empty, checked under
\* SpecOverwrite.

C19_WitnessTombstoned ==
  /\ restoreErr = "nil"
  /\ \E r \in LastRecords(journal, "a") : r.Deleted
  /\ "a" \in DOMAIN target /\ target["a"] = OldFiles["a"]

\* C20: after a restore that returned nil, the file at every live path has
\* the mode of the path's last record, whether restore created the file or
\* found it there.
C20_PermissionsPreserved ==
  restoreErr = "nil" =>
    \A p \in DOMAIN target :
       \A r \in LastRecords(journal, p) : ~r.Deleted => target[p].mode = r.Mode

---------------------------------------------------------------------------
\* Properties of a watch session followed by a restore, checked under
\* SpecTree.

\* C21: when the loop sleeps after a pass that succeeded, no pass, no
\* createBackup and no step of restore has failed, and restore into the
\* empty target returns nil, every directory that was under the watched
\* root at that pass is under the restore target, the empty ones included.
C21_DirectoriesRebuilt ==
  [][(pc = "sleep" /\ detectErr = "nil" /\ restoreErr = "none" /\ restoreErr' = "nil"
        /\ ~faulted' /\ tsOrdered)
       => dirs \subseteq targetDirs']_vars

RECURSIVE ReplayedRecords(_, _, _)
\* the records restore folds, in the order it folds them: the entries of
\* the chunk files files[i..] that decode
ReplayedRecords(dir, files, i) ==
  IF i > Len(files) THEN << >>
  ELSE (IF dir[files[i]].ok THEN readChunk(dir[files[i]]) ELSE << >>)
         \o ReplayedRecords(dir, files, i + 1)

\* C29: once restore has replayed the journal: after each record it folded,
\* no path was both in fileData and in deletedFiles, and the paths of the
\* records folded so far were exactly the paths in one of the two.
C29_FoldInvariant ==
  restoreErr \notin {"none", "mkdir"} =>
    \A recs \in {ReplayedRecords(journal, Replay(backupPath, journal).files, 1)} :
       /\ \A k \in 0..Len(recs) :
            \A st \in {FoldEntries([fileData |-> EmptyMap, deletedFiles |-> {}],
                                    SubSeq(recs, 1, k), 1)} :
               /\ (DOMAIN st.fileData) \cap st.deletedFiles = {}
               /\ (DOMAIN st.fileData) \cup st.deletedFiles = {recs[i].Path : i \in 1..k}
       /\ Replay(backupPath, journal).st = FoldEntries([fileData |-> EmptyMap, deletedFiles |-> {}], recs, 1)

\* C29 case: restore has folded a live record of "a", then a tombstone of
\* "a", then a live record of "a" again, and returned nil.
C29_Witness ==
  /\ restoreErr = "nil"
  /\ \E recs \in {ReplayedRecords(journal, Replay(backupPath, journal).files, 1)} :
       \E i, j, k \in DOMAIN recs :
          /\ i < j /\ j < k
          /\ recs[i].Path = "a" /\ recs[j].Path = "a" /\ recs[k].Path = "a"
          /\ ~recs[i].Deleted /\ recs[j].Deleted /\ ~recs[k].Deleted

---------------------------------------------------------------------------
\* Properties of a pass during which files are modified, checked under
\* Spec.

\* C32: when a pass has returned nil, the snapshot holds, for the path of
\* every live record of the list it returned, the fingerprint of the content
\* that record carries, also when files were rewritten during the pass.
C32_FingerprintOfRecord ==
  (pc \in {"backup", "sleep"} /\ detectErr = "nil") =>
    \A i \in DOMAIN changes :
       ~changes[i].Deleted =>
         /\ changes[i].Path \in DOMAIN snapshot
         /\ snapshot[changes[i].Path] = hashFile(changes[i].Content)

---------------------------------------------------------------------------
\* Properties of the change list and of the journal the loop writes,
\* checked under Spec.

\* C23: the change list a pass returned names each path at most once: no
\* path has two live records, two tombstones, or a live record and a
\* tombstone.
C23_OneRecordPerPath ==
  \A p \in Paths : Cardinality(RecordsOf(changes, p)) <= 1

\* C23 case: a pass has returned a list with a live record of one path and
\* a tombstone of the other, which an earlier chunk file recorded.
C23_Witness ==
  /\ pc = "backup" /\ detectErr = "nil"
  /\ Len(changes) = 2
  /\ \E i, j \in DOMAIN changes :
       /\ ~changes[i].Deleted /\ changes[j].Deleted
       /\ \E f \in DOMAIN journal : \E k \in DOMAIN readChunk(journal[f]) :
            readChunk(journal[f])[k].Path = changes[j].Path

\* C24: every tombstone of the change list has no content, and so has
\* every tombstone read back from a chunk file of the backup directory.
C24_TombstonesEmpty ==
  /\ \A i \in DOMAIN changes : changes[i].Deleted => changes[i].Content = NilBytes
  /\ \A x \in Positions(journal) :
       RecordAt(journal, x).Deleted => RecordAt(journal, x).Content = NilBytes

\* C24 case: createBackup has written a chunk file in which a tombstone
\* follows a live record that has content.
C24_Witness ==
  /\ pc = "sleep" /\ backupErr = ErrNil
  /\ \E f \in Decodable(journal) :
       /\ Len(readChunk(journal[f])) = 2
       /\ ~readChunk(journal[f])[1].Deleted /\ readChunk(journal[f])[1].Content.len > 0
       /\ readChunk(journal[f])[2].Deleted

\* the records of the chunk files of dir that are not in old as they are
WrittenRecords(old, dir) ==
  UNION {{readChunk(dir[f])[i] : i \in DOMAIN readChunk(dir[f])} :
           f \in {g \in DOMAIN dir : g \notin DOMAIN old \/ old[g] # dir[g]}}

\* C26: the loop goes from detectChanges to createBackup or straight to
\* time.Sleep, from createBackup to time.Sleep, and from time.Sleep to
\* detectChanges, one step at a time. createBackup is entered only from a
\* pass that returned nil and a list that is not empty; it is the only
\* step that touches the backup directory, it is given the list as the
\* pass returned it, and what it writes are records of that list.
C26_CycleOrder ==
  [][/\ (pc = "detect" /\ pc' # "detect") =>
          /\ pc' \in {"backup", "sleep"}
          /\ (pc' = "backup") <=> (Len(changes') > 0)
          /\ detectErr' # "nil" => pc' = "sleep"
     /\ pc = "backup" => (pc' = "sleep" /\ changes' = changes /\ Len(changes) > 0
                            /\ detectErr = "nil")
     /\ pc = "sleep" => pc' = "detect"
     /\ journal' # journal =>
          /\ pc = "backup"
          /\ \A r \in WrittenRecords(journal, journal') : \E i \in DOMAIN changes : r = changes[i]]_vars

\* C26 case: the loop is at time.Sleep of a cycle whose pass returned two
\* records and whose createBackup wrote them as one chunk file, next to the
\* chunk file of an earlier cycle.
C26_Witness ==
  /\ pc = "sleep" /\ detectErr = "nil" /\ backupErr = ErrNil
  /\ Len(changes) = 2
  /\ readChunk(journal[NameOfSeq(0)]) = changes
  /\ Cardinality(DOMAIN journal) = 2

\* the file at p is as the last pass that succeeded saw it: there with the
\* same bytes, or not there
AsScanned(p) ==
  IF p \in DOMAIN fs THEN p \in DOMAIN scanned /\ scanned[p] = fs[p].content
  ELSE p \notin DOMAIN scanned

\* C30: the snapshot changes in a pass only, never in createBackup or after
\* it, whatever createBackup returned. So a pass during which no file is
\* modified reports no record for a path that is as the last successful
\* pass saw it, also when the
\* createBackup of that cycle failed; and createBackup only writes records
\* of the list it was given: what a failed cycle did not write, no later
\* cycle writes while the file stays as it is.
C30_NoRetry ==
  [][/\ pc # "detect" => snapshot' = snapshot
     /\ (PassOk /\ Undisturbed) =>
          \A p \in Paths : AsScanned(p) => RecordsOf(changes', p) = {}
     /\ \A r \in WrittenRecords(journal, journal') : RecordsOf(changes, r.Path) # {}]_vars

\* C30 case: "a" was reported, its createBackup failed and left no record
\* of it; the next pass, over the unchanged tree, has returned the empty
\* list, and the loop is at time.Sleep with "a" in the snapshot and in no
\* chunk file.
C30_Witness ==
  /\ pc = "sleep" /\ detectErr = "nil" /\ changes = << >> /\ Undisturbed
  /\ lastTs >= 0 /\ faulted
  /\ "a" \in DOMAIN fs /\ "a" \in DOMAIN snapshot
  /\ snapshot["a"] = hashFile(fs["a"].content)
  /\ \A f \in DOMAIN journal : \A i \in DOMAIN readChunk(journal[f]) :
       readChunk(journal[f])[i].Path # "a"

---------------------------------------------------------------------------
\* Properties of the fingerprints, checked under SpecHash.

\* C25: after a pass that succeeded, two files have the same fingerprint in
\* the snapshot exactly when hashFile read the same bytes from them,
\* whatever their paths; two files without bytes have the same fingerprint.
C25_FingerprintOfContent ==
  (pc # "detect" /\ detectErr = "nil") =>
    /\ DOMAIN snapshot = DOMAIN scanned
    /\ \A p, q \in DOMAIN scanned :
         (snapshot[p] = snapshot[q]) <=> (scanned[p] = scanned[q])

\* C25 case: a pass hashed two empty files, at "a" and at "b", and gave
\* them one fingerprint, the SHA-256 of no bytes, another than the one the
\* snapshot held for "a".
C25_Witness ==
  /\ pc # "detect" /\ detectErr = "nil"
  /\ DOMAIN scanned = {"a", "b"}
  /\ scanned["a"] = NilBytes /\ scanned["b"] = NilBytes
  /\ snapshot["a"] = snapshot["b"]
  /\ snapshot["a"] = "e3b0c44298fc1c149afbf4c8996fb92427ae41e4649b934ca495991b7852b855"
  /\ \E i \in DOMAIN changes : changes[i].Path = "a"

\* C25 case: a pass hashed two files whose one byte differs and gave them
\* two fingerprints.
C25_WitnessOneByte ==
  /\ pc # "detect" /\ detectErr = "nil"
  /\ DOMAIN scanned = {"a", "b"}
  /\ scanned["a"] = SmallBytes /\ scanned["b"] = OtherBytes
  /\ snapshot["a"] # snapshot["b"]
  /\ snapshot["a"] = "2d711642b726b04401627ca9fbac32f5c8530fb1903cc4db02258717921a4881"
  /\ snapshot["b"] = "a1fce4363854ff888cff4b8e7875d600c2682390412a8cf79b37d0b11148b0fa"

---------------------------------------------------------------------------
\* Properties of the watch loop that runs on, checked under SpecLive.

\* the positions of the body of for { .. }
InLoop == pc \in {"detect", "backup", "sleep"}

\* C22: once in the loop, watch never leaves it, whatever detectChanges and
\* createBackup return; and unless watch never got into the loop, it is at
\* time.Sleep again and again, and at the next call of detectChanges again
\* and again.
C22_LoopRunsOn ==
  /\ [][InLoop => InLoop']_vars
  /\ (<>[](~InLoop) \/ ([]<>(pc = "sleep") /\ []<>(pc = "detect")))

\* C22 case: the loop is at detectChanges again after a cycle whose pass
\* failed, while an earlier cycle's createBackup has failed and left a
\* damaged chunk file.
C22_Witness ==
  /\ pc = "detect" /\ detectErr = "walk"
  /\ \E f \in DOMAIN journal : ~journal[f].ok
====
